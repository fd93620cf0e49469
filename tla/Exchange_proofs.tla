--------------------------- MODULE Exchange_proofs ---------------------------
(***************************************************************************)
(* Proofs about Exchange and Resources.  For every set of samples and      *)
(* every order, repetition and loss in an answer, a sample is settled with *)
(* an outcome of its own; for every library, configuration and change of a *)
(* file, a worker works with what the preflight showed.                    *)
(***************************************************************************)
EXTENDS MCExchange, WellFoundedInduction, SequenceTheorems, TLAPS

-----------------------------------------------------------------------------
(* The exchange with a worker: the inductive invariant                     *)

\* What a leased sample may be settled with.
OwnOutcomes(s) == Outcomes(s) \cup {x \in {Issue("caption_result_too_large", "")} : module = "caption"}

Items == [sample : Samples, lease : Nat]

\* What is kept per sample is a function, and the items of a batch are leased samples.
ExchangeTypes ==
  /\ setup \in Setups
  /\ module \in ToSet(Order) \cup {"done"} /\ (module = "done" => phase = "ended")
  /\ phase \in {"claim", "build", "send", "reply", "settle", "ended"}
  /\ at \in [Samples -> {"pending", "leased", "settled", "out"}] /\ lease \in [Samples -> Nat]
  /\ code = [s \in Samples |-> code[s]] /\ txt = [s \in Samples |-> txt[s]]
  /\ json = [s \in Samples |-> json[s]] /\ out = [s \in Samples |-> out[s]]
  /\ todo \subseteq Samples /\ items \in Seq(Items)

\* However an answer is ordered or labelled, each outcome in it is one the worker may have
\* for the sample it names, as long as that sample waits for one.
IsOwn(o) == o.sample \in Samples /\ (at[o.sample] = "leased" => o.outcome \in OwnOutcomes(o.sample))
AnswerInv ==
  phase \in {"reply", "settle"} =>
    answer \in Seq(ToSet(answer)) /\ \A i \in DOMAIN answer : IsOwn(answer[i])

ExchangeInv == ExchangeTypes /\ AnswerInv

-----------------------------------------------------------------------------
(* Lists                                                                   *)

\* A function on 1..n is a sequence of its values.
LEMMA Listed ==
  ASSUME NEW n \in Nat, NEW q, q = [i \in 1..n |-> q[i]]
  PROVE  q \in Seq(ToSet(q)) /\ Len(q) = n /\ DOMAIN q = 1..n
<1>1. DOMAIN q = 1..n
  OBVIOUS
<1>2. \A i \in 1..n : q[i] \in ToSet(q)
  BY <1>1 DEF ToSet
<1>3. q \in [1..n -> ToSet(q)]
  BY <1>1, <1>2
<1> QED BY <1>1, <1>3

\* The rest of a list, and its first element.
LEMMA Rest ==
  ASSUME NEW q, q \in Seq(ToSet(q)), q # <<>>
  PROVE  /\ 1 \in DOMAIN q /\ Head(q) = q[1] /\ Tail(q) \in Seq(ToSet(Tail(q)))
         /\ \A i \in DOMAIN Tail(q) : i + 1 \in DOMAIN q /\ Tail(q)[i] = q[i + 1]
<1>1. Len(q) \in Nat \ {0} /\ DOMAIN q = 1..Len(q) /\ Head(q) = q[1]
  OBVIOUS
<1>2. Tail(q) \in Seq(ToSet(q)) /\ Len(Tail(q)) = Len(q) - 1
  BY <1>1
<1>3. /\ DOMAIN Tail(q) = 1..(Len(q) - 1)
      /\ \A i \in 1..(Len(q) - 1) : Tail(q)[i] = q[i + 1]
  BY <1>1
<1>4. Tail(q) = [i \in 1..Len(Tail(q)) |-> Tail(q)[i]]
  <2>1. Tail(q) \in [1..Len(Tail(q)) -> ToSet(q)]
    BY <1>2, LenProperties
  <2> QED BY <2>1
<1>5. Len(q) - 1 \in Nat
  BY <1>1
<1>6. Tail(q) \in Seq(ToSet(Tail(q)))
  BY <1>2, <1>4, <1>5, Listed
<1>7. \A i \in DOMAIN Tail(q) : i + 1 \in DOMAIN q /\ Tail(q)[i] = q[i + 1]
  BY <1>1, <1>3
<1>8. 1 \in DOMAIN q
  BY <1>1
<1> QED BY <1>1, <1>6, <1>7, <1>8

\* A list of items without the k-th.
LEMMA Removed ==
  ASSUME NEW T, NEW q \in Seq(T), NEW k \in DOMAIN q
  PROVE  RemoveAt(q, k) \in Seq(T)
<1>1. k \in 1..Len(q) /\ Len(q) \in Nat /\ k \in Nat
  OBVIOUS
<1>2. SubSeq(q, 1, k - 1) \in Seq(T)
  BY <1>1
<1>3. SubSeq(q, k + 1, Len(q)) \in Seq(T)
  BY <1>1
<1> QED BY <1>2, <1>3 DEF RemoveAt

\* A nonempty set of naturals has a least element, and Min is it.
LEMMA MinIn == ASSUME NEW C \in SUBSET Nat, C # {} PROVE Min(C) \in C
<1> DEFINE Below == {p \in Nat \X Nat : p[1] < p[2]}
<1>1. IsWellFoundedOn(Below, Nat)
  <2>1. Below = OpToRel(<, Nat)
    BY DEF OpToRel
  <2> QED BY <2>1, NatLessThanWellFounded
<1>2. PICK x \in C : \A y \in C : ~(<<y, x>> \in Below)
  BY <1>1, WFMin
<1>3. ASSUME NEW y \in C PROVE x =< y
  <2>1. x \in Nat /\ y \in Nat
    OBVIOUS
  <2>2. ~(<<y, x>> \in Below)
    BY <1>2
  <2>3. ~(y < x)
    BY <2>1, <2>2
  <2> QED BY <2>1, <2>3
<1> QED BY <1>3 DEF Min

\* The module after the k-th is a module.
LEMMA NextModule == ASSUME NEW k \in 0..4 PROVE ModuleAfter(k) \in ToSet(Order)
<1> DEFINE on == {j \in DOMAIN Order : j > k /\ Order[j] \in cfg.enabled \cup {"export"}}
<1>1. DOMAIN Order = 1..5 /\ Order[5] = "export"
  BY DEF Order
<1>2. on \in SUBSET Nat /\ 5 \in on
  BY <1>1
<1>3. Min(on) \in on
  BY <1>2, MinIn
<1> QED BY <1>3 DEF ModuleAfter, ToSet
LEMMA PlaceOfModule ==
  ASSUME NEW m \in ToSet(Order), m # "export" PROVE ModuleIndex(m) \in 0..4
<1>1. DOMAIN Order = 1..5 /\ Order[5] = "export"
  BY DEF Order
<1>2. PICK k \in DOMAIN Order : Order[k] = m
  BY DEF ToSet
<1>3. ModuleIndex(m) \in DOMAIN Order /\ Order[ModuleIndex(m)] = m
  BY <1>2 DEF ModuleIndex
<1> QED BY <1>1, <1>3

-----------------------------------------------------------------------------
(* The exchange with a worker: its steps                                   *)

\* What a sample may be settled with depends on its own files alone.
LEMMA OwnKept ==
  ASSUME NEW s, UNCHANGED <<setup, module>>, txt'[s] = txt[s], json'[s] = json[s]
  PROVE  OwnOutcomes(s)' = OwnOutcomes(s)
BY DEF OwnOutcomes, Outcomes, ClassifyItem, RawForm621, Case, cfg

\* Samples are numbered, and keep their numbers.
LEMMA SamplesKept == ASSUME UNCHANGED setup PROVE Samples' = Samples /\ Items' = Items
BY DEF Samples, Items

LEMMA SamplesNumbered == ASSUME setup \in Setups PROVE Samples \subseteq Nat
BY ExchangeAssumption DEF Samples

LEMMA ExchangeStarts == ASSUME Init PROVE ExchangeInv
<1>1. ModuleAfter(0) \in ToSet(Order)
  BY NextModule
<1>2. "done" \notin ToSet(Order)
  BY DEF Order, ToSet
<1>3. module \in ToSet(Order) /\ module # "done"
  BY <1>1, <1>2 DEF Init
<1>4. /\ code = [s \in Samples |-> code[s]] /\ txt = [s \in Samples |-> txt[s]]
      /\ json = [s \in Samples |-> json[s]] /\ out = [s \in Samples |-> out[s]]
  BY DEF Init
<1>5. /\ at \in [Samples -> {"pending", "leased", "settled", "out"}] /\ lease \in [Samples -> Nat]
      /\ items \in Seq(Items)
  <2>1. items = <<>> /\ at = [s \in Samples |-> "pending"] /\ lease = [s \in Samples |-> 0]
    BY DEF Init
  <2> QED BY <2>1
<1>6. ExchangeTypes
  BY <1>3, <1>4, <1>5 DEF Init, ExchangeTypes
<1> QED BY <1>6 DEF Init, ExchangeInv, AnswerInv

LEMMA ReturnedIn ==
  ASSUME ExchangeTypes PROVE Returned \in [Samples -> {"pending", "leased", "settled", "out"}]
BY DEF ExchangeTypes, Returned

\* A job that fails asks no worker any more.
LEMMA FailKeeps == ASSUME ExchangeInv, NEW c, Fail(c) PROVE ExchangeInv'
<1> USE DEF Fail, ExchangeInv, files
<1>1. at' \in [Samples -> {"pending", "leased", "settled", "out"}]
  BY ReturnedIn
<1>2. ExchangeTypes'
  BY <1>1, SamplesKept DEF ExchangeTypes
<1> QED BY <1>2 DEF AnswerInv

LEMMA ClaimKeeps == ASSUME ExchangeInv, Claim PROVE ExchangeInv'
<1> USE DEF Claim, ExchangeInv, files, Pending
<1>1. ExchangeTypes'
  BY SamplesKept DEF ExchangeTypes
<1> QED BY <1>1 DEF AnswerInv

LEMMA FinishKeeps == ASSUME ExchangeInv, FinishModule PROVE ExchangeInv'
<1> USE DEF FinishModule, ExchangeInv, files
<1>1. CASE module = "export"
  BY <1>1, SamplesKept DEF ExchangeTypes, AnswerInv
<1>2. CASE module # "export"
  <2>1. module \in ToSet(Order)
    BY DEF ExchangeTypes
  <2>2. ModuleAfter(ModuleIndex(module)) \in ToSet(Order)
    BY <1>2, <2>1, PlaceOfModule, NextModule
  <2>3. "done" \notin ToSet(Order)
    BY DEF Order, ToSet
  <2>4. at' \in [Samples -> {"pending", "leased", "settled", "out"}]
    BY <1>2 DEF ExchangeTypes
  <2>5. module' \in ToSet(Order) /\ phase' = "claim"
    BY <1>2, <2>2
  <2> QED BY <2>3, <2>4, <2>5, SamplesKept DEF ExchangeTypes, AnswerInv
<1> QED BY <1>1, <1>2

LEMMA BuildKeeps == ASSUME ExchangeInv, BuildItem PROVE ExchangeInv'
<1> DEFINE s == Min(todo)  built == Build(s)
<1>1. s \in todo /\ s \in Samples
  BY MinIn, SamplesNumbered DEF BuildItem, ExchangeInv, ExchangeTypes
<1> HIDE DEF s, built
<1>2. CASE Fail(built.code)
  BY <1>2, FailKeeps
<1>3. CASE built.do # "fail" /\ ~Fail(built.code)
  <2>1. /\ phase = "build" /\ phase' = "build" /\ UNCHANGED <<setup, module, lease, txt, json, out>>
        /\ todo' = todo \ {s}
        /\ items' = IF built.do = "item" THEN Append(items, [sample |-> s, lease |-> lease[s]]) ELSE items
        /\ at' = [at EXCEPT ![s] = CASE built.do = "issue" -> "out" [] built.do = "settle" -> "settled"
                                     [] OTHER -> @]
        /\ code' = [code EXCEPT ![s] = built.code]
    BY <1>3 DEF BuildItem, s, built, files
  <2>2. items' \in Seq(Items)
    <3>1. [sample |-> s, lease |-> lease[s]] \in Items
      BY <1>1 DEF ExchangeInv, ExchangeTypes, Items
    <3> QED BY <2>1, <3>1 DEF ExchangeInv, ExchangeTypes
  <2>3. at' \in [Samples -> {"pending", "leased", "settled", "out"}]
    BY <1>1, <2>1 DEF ExchangeInv, ExchangeTypes
  <2>4. ExchangeTypes'
    BY <1>1, <2>1, <2>2, <2>3, SamplesKept DEF ExchangeInv, ExchangeTypes
  <2> QED BY <2>1, <2>4 DEF ExchangeInv, AnswerInv
<1> QED BY <1>2, <1>3 DEF BuildItem, s, built

LEMMA BuiltKeeps == ASSUME ExchangeInv, Built \/ Hello PROVE ExchangeInv'
<1>1. CASE Fail("replace_protocol_violation")
  BY <1>1, FailKeeps
<1>2. CASE ~Fail("replace_protocol_violation")
  <2>1. /\ UNCHANGED <<setup, module, at, lease, code, txt, json, out, todo, items>>
        /\ phase' \in {"claim", "send"} /\ phase # "ended"
    BY <1>2 DEF Built, Hello, files
  <2>2. ExchangeTypes'
    BY <2>1, SamplesKept DEF ExchangeInv, ExchangeTypes
  <2> QED BY <2>1, <2>2 DEF ExchangeInv, AnswerInv
<1> QED BY <1>1, <1>2

\* The outcomes of the batch, and what is left of them in an answer that must fit.
LEMMA LabelledOwn ==
  ASSUME ExchangeTypes, NEW outcomes \in OneOfEach([k \in DOMAIN items |-> Outcomes(items[k].sample)])
  PROVE  /\ Labelled(outcomes) \in Seq(ToSet(Labelled(outcomes)))
         /\ DOMAIN Labelled(outcomes) = DOMAIN items
         /\ \A k \in DOMAIN items : IsOwn(Labelled(outcomes)[k])
<1>1. /\ DOMAIN items = 1..Len(items) /\ Len(items) \in Nat
      /\ \A k \in DOMAIN items : items[k].sample \in Samples
  <2>1. items \in Seq(Items)
    BY DEF ExchangeTypes
  <2>2. DOMAIN items = 1..Len(items) /\ Len(items) \in Nat /\ \A k \in DOMAIN items : items[k] \in Items
    BY <2>1
  <2> QED BY <2>2 DEF Items
<1>2. \A k \in DOMAIN items : outcomes[k] \in Outcomes(items[k].sample)
  BY DEF OneOfEach
<1>3. Labelled(outcomes) \in Seq(ToSet(Labelled(outcomes)))
  BY <1>1, Listed DEF Labelled
<1> QED BY <1>1, <1>2, <1>3 DEF Labelled, IsOwn, OwnOutcomes

LEMMA FittedOwn ==
  ASSUME module = "caption", NEW q, q \in Seq(ToSet(q)),
         \A k \in DOMAIN q : q[k] = [sample |-> q[k].sample, lease |-> q[k].lease, outcome |-> q[k].outcome]
                             /\ IsOwn(q[k])
  PROVE  FitAnswer(q) \in Seq(ToSet(FitAnswer(q))) /\ \A k \in DOMAIN FitAnswer(q) : IsOwn(FitAnswer(q)[k])
<1> DEFINE results == {i \in DOMAIN q : q[i].outcome.kind = "result"}
           Rank(i) == Cardinality({j \in results : LargerFirst(j, i, q)})
           Cut(n) == [i \in DOMAIN q |-> IF i \in results /\ Rank(i) < n THEN Shortened(q[i]) ELSE q[i]]
           enough == {n \in 0..Cardinality(results) : Total(Cut(n)) <= FrameRoom}
<1>1. FitAnswer(q) = IF enough = {} THEN <<>> ELSE Cut(Min(enough))
  BY DEF FitAnswer
<1>2. ASSUME NEW n PROVE Cut(n) \in Seq(ToSet(Cut(n))) /\ \A k \in DOMAIN Cut(n) : IsOwn(Cut(n)[k])
  <2> DEFINE c == Cut(n)
  <2>1. DOMAIN q = 1..Len(q) /\ Len(q) \in Nat
    OBVIOUS
  <2>2. /\ c = [i \in DOMAIN q |-> c[i]] /\ DOMAIN c = DOMAIN q
        /\ \A i \in DOMAIN q : c[i] = q[i] \/ c[i] = Shortened(q[i])
    OBVIOUS
  <2>3. ASSUME NEW i \in DOMAIN q PROVE IsOwn(Shortened(q[i]))
    <3>1. Shortened(q[i]).sample = q[i].sample /\ Shortened(q[i]).outcome = Issue("caption_result_too_large", "")
      BY DEF Shortened
    <3> QED BY <3>1 DEF IsOwn, OwnOutcomes
  <2> HIDE DEF c
  <2>4. c \in Seq(ToSet(c))
    BY <2>1, <2>2, Listed
  <2>5. \A k \in DOMAIN c : IsOwn(c[k])
    BY <2>2, <2>3
  <2> QED BY <2>4, <2>5 DEF c
<1> HIDE DEF results, Rank, Cut, enough
<1>3. <<>> \in Seq(ToSet(<<>>)) /\ DOMAIN <<>> = {}
  OBVIOUS
<1> QED BY <1>1, <1>2, <1>3

LEMMA ComputesKeeps == ASSUME ExchangeInv, WorkerComputes PROVE ExchangeInv'
<1> USE DEF files
<1>1. /\ UNCHANGED <<setup, module, at, lease, code, txt, json, out, todo, items>>
      /\ phase = "send" /\ phase' = "reply"
  BY DEF WorkerComputes
<1>2. ExchangeTypes'
  BY <1>1, SamplesKept DEF ExchangeInv, ExchangeTypes
<1>3. PICK outcomes \in OneOfEach([k \in DOMAIN items |-> Outcomes(items[k].sample)]) :
        answer' = IF module = "caption" THEN FitAnswer(Labelled(outcomes)) ELSE Labelled(outcomes)
  BY DEF WorkerComputes
<1> DEFINE all == Labelled(outcomes)
<1>4. /\ all \in Seq(ToSet(all)) /\ DOMAIN all = DOMAIN items /\ \A k \in DOMAIN all : IsOwn(all[k])
  BY LabelledOwn DEF ExchangeInv
<1>5. \A k \in DOMAIN all : all[k] = [sample |-> all[k].sample, lease |-> all[k].lease, outcome |-> all[k].outcome]
  BY DEF Labelled
<1>6. answer' \in Seq(ToSet(answer')) /\ \A k \in DOMAIN answer' : IsOwn(answer'[k])
  <2> HIDE DEF all
  <2>1. CASE module = "caption"
    BY <1>3, <1>4, <1>5, <2>1, FittedOwn DEF all
  <2>2. CASE module # "caption"
    BY <1>3, <1>4, <2>2 DEF all
  <2> QED BY <2>1, <2>2
<1>7. \A o : IsOwn(o) => IsOwn(o)'
  BY <1>1, SamplesKept, OwnKept DEF IsOwn
<1> QED BY <1>1, <1>2, <1>6, <1>7 DEF ExchangeInv, AnswerInv

\* A faulty answer has no outcome that is of another sample than the one it names.
LEMMA TamperedOwn ==
  ASSUME answer \in Seq(ToSet(answer)), answer # <<>>, \A i \in DOMAIN answer : IsOwn(answer[i]),
         NEW sent \in Tampered(answer)
  PROVE  sent \in Seq(ToSet(sent)) /\ \A i \in DOMAIN sent : IsOwn(sent[i])
<1>1. /\ DOMAIN answer = 1..Len(answer) /\ Len(answer) \in Nat
      /\ answer = [i \in 1..Len(answer) |-> answer[i]]
  <2>1. answer \in [1..Len(answer) -> ToSet(answer)] /\ Len(answer) \in Nat
    BY LenProperties
  <2> QED BY <2>1
<1>2. CASE sent = Reverse(answer)
  <2>1. sent = [i \in 1..Len(answer) |-> answer[Len(answer) - i + 1]]
    BY <1>2 DEF Reverse
  <2>2. \A i \in 1..Len(answer) : Len(answer) - i + 1 \in 1..Len(answer)
    BY <1>1
  <2>3. sent \in Seq(ToSet(sent)) /\ DOMAIN sent = 1..Len(answer)
    BY <1>1, <2>1, Listed
  <2> QED BY <1>1, <2>1, <2>2, <2>3
<1>3. CASE sent = Tail(answer)
  BY <1>3, Rest
<1>4. CASE \E i, j \in DOMAIN answer : sent = [answer EXCEPT ![i] = answer[j]]
  <2>1. PICK i, j \in DOMAIN answer : sent = [answer EXCEPT ![i] = answer[j]]
    BY <1>4
  <2>2. sent = [k \in 1..Len(answer) |-> sent[k]] /\ DOMAIN sent = DOMAIN answer
    BY <1>1, <2>1
  <2>3. \A k \in DOMAIN answer : sent[k] = answer[k] \/ sent[k] = answer[j]
    BY <2>1
  <2>4. sent \in Seq(ToSet(sent))
    BY <1>1, <2>2, Listed
  <2> QED BY <2>2, <2>3, <2>4
<1>5. CASE \E i \in DOMAIN answer : sent = [answer EXCEPT ![i] = Stale(@)]
  <2>1. PICK i \in DOMAIN answer : sent = [answer EXCEPT ![i] = Stale(@)]
    BY <1>5
  <2>2. sent = [k \in 1..Len(answer) |-> sent[k]] /\ DOMAIN sent = DOMAIN answer
    BY <1>1, <2>1
  <2>3. \A k \in DOMAIN answer : sent[k] = answer[k] \/ sent[k] = Stale(answer[k])
    BY <2>1
  <2>4. \A o : Stale(o).sample = o.sample /\ Stale(o).outcome = o.outcome
    BY DEF Stale
  <2>5. \A o : IsOwn(o) => IsOwn(Stale(o))
    BY <2>4 DEF IsOwn
  <2>6. sent \in Seq(ToSet(sent))
    BY <1>1, <2>2, Listed
  <2> QED BY <2>2, <2>3, <2>5, <2>6
<1> QED BY <1>2, <1>3, <1>4, <1>5 DEF Tampered

\* The core pairs the outcomes with the items by sample and lease.
LEMMA ReceiveKeeps ==
  ASSUME ExchangeInv, phase = "reply", NEW sent, sent \in Seq(ToSet(sent)), \A i \in DOMAIN sent : IsOwn(sent[i]),
         Receive(sent)
  PROVE  ExchangeInv'
<1> USE DEF files
<1>1. CASE Fail("protocol_violation")
  BY <1>1, FailKeeps
<1>2. CASE ~Fail("protocol_violation")
  <2>1. /\ UNCHANGED <<setup, module, at, lease, code, txt, json, out, todo, items>>
        /\ phase' = "settle"
        /\ answer' = IF WholeAnswer THEN InItemOrder(sent) ELSE sent
        /\ WholeAnswer => Matches(sent)
    BY <1>2 DEF Receive
  <2>2. ExchangeTypes'
    BY <2>1, SamplesKept DEF ExchangeInv, ExchangeTypes
  <2>3. ASSUME Matches(sent)
        PROVE  /\ InItemOrder(sent) \in Seq(ToSet(InItemOrder(sent)))
               /\ \A k \in DOMAIN InItemOrder(sent) : IsOwn(InItemOrder(sent)[k])
    <3>1. DOMAIN items = 1..Len(items) /\ Len(items) \in Nat
      BY DEF ExchangeInv, ExchangeTypes
    <3>2. \A k \in DOMAIN items : InItemOrder(sent)[k] \in ToSet(sent)
      BY <2>3 DEF Matches, InItemOrder, ToSet
    <3> DEFINE q == InItemOrder(sent)
    <3>3. q = [k \in 1..Len(items) |-> q[k]]
      BY <3>1 DEF InItemOrder
    <3> HIDE DEF q
    <3>4. q \in Seq(ToSet(q)) /\ DOMAIN q = DOMAIN items
      BY <3>1, <3>3, Listed
    <3> QED BY <3>2, <3>4 DEF ToSet, q
  <2>4. answer' \in Seq(ToSet(answer')) /\ \A k \in DOMAIN answer' : IsOwn(answer'[k])
    BY <2>1, <2>3
  <2>5. \A o : IsOwn(o) => IsOwn(o)'
    BY <2>1, SamplesKept, OwnKept DEF IsOwn
  <2> QED BY <2>1, <2>2, <2>4, <2>5 DEF ExchangeInv, AnswerInv
<1> QED BY <1>1, <1>2

LEMMA AnswersKeep == ASSUME ExchangeInv, WorkerAnswers \/ WorkerMisanswers PROVE ExchangeInv'
<1>1. phase = "reply" /\ answer \in Seq(ToSet(answer)) /\ \A i \in DOMAIN answer : IsOwn(answer[i])
  BY DEF ExchangeInv, AnswerInv, WorkerAnswers, WorkerMisanswers
<1>2. CASE WorkerAnswers
  BY <1>1, <1>2, ReceiveKeeps DEF WorkerAnswers
<1>3. CASE WorkerMisanswers
  <2>1. PICK sent \in Tampered(answer) : Receive(sent)
    BY <1>3 DEF WorkerMisanswers
  <2>2. sent \in Seq(ToSet(sent)) /\ \A i \in DOMAIN sent : IsOwn(sent[i])
    BY <1>1, <1>3, TamperedOwn DEF WorkerMisanswers
  <2> QED BY <1>1, <2>1, <2>2, ReceiveKeeps
<1> QED BY <1>2, <1>3

LEMMA ExitKeeps == ASSUME ExchangeInv, WorkerExits PROVE ExchangeInv'
<1>1. CASE Fail("worker_exited")
  BY <1>1, FailKeeps
<1>2. CASE ~Fail("worker_exited")
  <2>1. /\ UNCHANGED <<setup, module, lease, code, txt, json, out, todo>>
        /\ phase \in {"send", "reply"} /\ phase' = "claim" /\ at' = Returned /\ items' = <<>>
    BY <1>2 DEF WorkerExits, files
  <2>2. ExchangeTypes'
    BY <2>1, ReturnedIn, SamplesKept DEF ExchangeInv, ExchangeTypes
  <2> QED BY <2>1, <2>2 DEF ExchangeInv, AnswerInv
<1> QED BY <1>1, <1>2

\* What Settle does: the sample named by the first outcome, and only that.
LEMMA Settling ==
  ASSUME ExchangeInv, Settle
  PROVE  LET o == Head(answer)
             s == o.sample
         IN  /\ phase = "settle" /\ answer # <<>> /\ s \in Samples /\ IsOwn(o)
             /\ UNCHANGED <<setup, module, lease, todo>>
             /\ IF o.outcome.kind = "issue" THEN UNCHANGED files ELSE Store(s, o.outcome)
             /\ at' = [at EXCEPT ![s] = IF o.outcome.kind = "issue" THEN "out" ELSE "settled"]
             /\ code' = [code EXCEPT ![s] = o.outcome.code]
             /\ items' \in Seq(Items) /\ answer' = Tail(answer) /\ phase' \in {"claim", "settle"}
<1> DEFINE o == Head(answer)  i == ItemOf(o)  s == o.sample
<1>1. phase = "settle" /\ answer # <<>> /\ ~Foreign
  BY DEF Settle
<1>2. o = answer[1] /\ 1 \in DOMAIN answer /\ IsOwn(o)
  BY <1>1, Rest DEF ExchangeInv, AnswerInv
<1>3. i \in ToSet(items) /\ SameLease(o, i)
  <2>1. \E j \in ToSet(items) : SameLease(o, j)
    BY <1>1 DEF Foreign, Outcome
  <2> QED BY <2>1 DEF ItemOf
<1>4. i.sample = s /\ s \in Samples
  BY <1>2, <1>3 DEF SameLease, IsOwn
<1>5. RemoveAt(items, CHOOSE k \in DOMAIN items : items[k] = i) \in Seq(Items)
  <2>1. items \in Seq(Items) /\ \E k \in DOMAIN items : items[k] = i
    BY <1>3 DEF ExchangeInv, ExchangeTypes, ToSet
  <2> HIDE DEF i
  <2>2. (CHOOSE k \in DOMAIN items : items[k] = i) \in DOMAIN items
    BY <2>1
  <2> QED BY <2>1, <2>2, Removed
<1> QED BY <1>1, <1>2, <1>4, <1>5 DEF Settle, Outcome

LEMMA StoreKeeps ==
  ASSUME ExchangeTypes, NEW s \in Samples, NEW result, Store(s, result)
  PROVE  /\ txt' = [r \in Samples |-> txt'[r]] /\ json' = [r \in Samples |-> json'[r]]
         /\ out' = [r \in Samples |-> out'[r]]
         /\ \A r \in Samples \ {s} : txt'[r] = txt[r] /\ json'[r] = json[r] /\ out'[r] = out[r]
<1> DEFINE new == CASE module = "classify" -> File("plain", ComposeClassifyJson(json[s], result.json, cfg, Case(s).text # <<>>))
                    [] module \in {"replace", "dropout"} -> File("plain", result.json)
                    [] OTHER -> json[s]
<1>1. json' = [json EXCEPT ![s] = new]
  BY DEF Store
<1> HIDE DEF new
<1>2. \/ txt' = txt \/ \E t : txt' = [txt EXCEPT ![s] = t]
  BY DEF Store
<1>3. \/ out' = out \/ \E t : out' = [out EXCEPT ![s] = t]
  BY DEF Store
<1> QED BY <1>1, <1>2, <1>3 DEF ExchangeTypes

LEMMA SettleKeeps == ASSUME ExchangeInv, Settle PROVE ExchangeInv'
<1> DEFINE o == Head(answer)  s == o.sample
<1>1. /\ phase = "settle" /\ answer # <<>> /\ s \in Samples /\ IsOwn(o)
      /\ UNCHANGED <<setup, module, lease, todo>>
      /\ IF o.outcome.kind = "issue" THEN UNCHANGED files ELSE Store(s, o.outcome)
      /\ at' = [at EXCEPT ![s] = IF o.outcome.kind = "issue" THEN "out" ELSE "settled"]
      /\ code' = [code EXCEPT ![s] = o.outcome.code]
      /\ items' \in Seq(Items) /\ answer' = Tail(answer) /\ phase' \in {"claim", "settle"}
  BY Settling
<1> HIDE DEF o, s
<1>2. /\ txt' = [r \in Samples |-> txt'[r]] /\ json' = [r \in Samples |-> json'[r]]
      /\ out' = [r \in Samples |-> out'[r]]
      /\ \A r \in Samples \ {s} : txt'[r] = txt[r] /\ json'[r] = json[r]
  BY <1>1, StoreKeeps DEF ExchangeInv, ExchangeTypes, files
<1>3. /\ at' \in [Samples -> {"pending", "leased", "settled", "out"}] /\ at'[s] # "leased"
      /\ \A r \in Samples \ {s} : at'[r] = at[r]
      /\ code' = [r \in Samples |-> code'[r]]
  BY <1>1 DEF ExchangeInv, ExchangeTypes
<1>4. ExchangeTypes'
  BY <1>1, <1>2, <1>3, SamplesKept DEF ExchangeInv, ExchangeTypes
<1>5. \A r : IsOwn(r) => IsOwn(r)'
  <2> SUFFICES ASSUME NEW r, IsOwn(r) PROVE IsOwn(r)'
    OBVIOUS
  <2>1. CASE r.sample = s
    BY <1>1, <1>3, <2>1, SamplesKept DEF IsOwn
  <2>2. CASE r.sample # s
    <3>1. /\ r.sample \in Samples /\ txt'[r.sample] = txt[r.sample] /\ json'[r.sample] = json[r.sample]
          /\ at'[r.sample] = at[r.sample] /\ Samples' = Samples
      BY <1>1, <1>2, <1>3, <2>2, SamplesKept DEF IsOwn
    <3>2. OwnOutcomes(r.sample)' = OwnOutcomes(r.sample)
      BY <1>1, <3>1, OwnKept
    <3> QED BY <3>1, <3>2 DEF IsOwn
  <2> QED BY <2>1, <2>2
<1>6. answer' \in Seq(ToSet(answer')) /\ \A i \in DOMAIN answer' : IsOwn(answer'[i])
  BY <1>1, Rest DEF ExchangeInv, AnswerInv
<1> QED BY <1>4, <1>5, <1>6 DEF ExchangeInv, AnswerInv

LEMMA ExchangeNext == ASSUME ExchangeInv, Next PROVE ExchangeInv'
<1>1. CASE WorkerRefuses
  BY <1>1, FailKeeps DEF WorkerRefuses
<1>2. CASE RefuseOutcome
  BY <1>2, FailKeeps DEF RefuseOutcome
<1>3. CASE WriteFails
  BY <1>3, FailKeeps DEF WriteFails
<1> QED BY <1>1, <1>2, <1>3, ClaimKeeps, FinishKeeps, BuildKeeps, BuiltKeeps, ComputesKeeps, AnswersKeep,
          ExitKeeps, SettleKeeps DEF Next

\* Whatever the order, the length and the labels of an answer, a sample is settled with what
\* the worker made of it (Exchange!OwnAnswer).
LEMMA StepOwn ==
  ASSUME ExchangeInv, Next, NEW s \in Samples, phase = "settle", at[s] = "leased", at'[s] \in {"settled", "out"}
  PROVE  \E o \in OwnOutcomes(s) : LeftWith(s, o)
<1>1. CASE Settle
  <2> DEFINE o == Head(answer)  r == o.outcome
  <2>1. /\ o.sample \in Samples /\ IsOwn(o)
        /\ IF r.kind = "issue" THEN UNCHANGED files ELSE Store(o.sample, r)
        /\ at' = [at EXCEPT ![o.sample] = IF r.kind = "issue" THEN "out" ELSE "settled"]
        /\ code' = [code EXCEPT ![o.sample] = r.code]
    BY <1>1, Settling
  <2> HIDE DEF o, r
  <2>2. o.sample = s
    BY <2>1 DEF ExchangeInv, ExchangeTypes
  <2>3. r \in OwnOutcomes(s)
    BY <2>1, <2>2 DEF IsOwn, r
  <2>4. at'[s] = (IF r.kind = "issue" THEN "out" ELSE "settled") /\ code'[s] = r.code
    BY <2>1, <2>2 DEF ExchangeInv, ExchangeTypes
  <2>5. CASE r.kind = "issue"
    BY <2>1, <2>2, <2>3, <2>4, <2>5 DEF LeftWith, files
  <2>6. CASE r.kind # "issue"
    <3>1. Store(s, r)
      BY <2>1, <2>2, <2>6
    <3>2. s \in DOMAIN txt /\ s \in DOMAIN json /\ s \in DOMAIN out
      BY DEF ExchangeInv, ExchangeTypes
    <3>3. module \in {"caption", "classify", "replace", "dropout", "export"}
      BY DEF ExchangeInv, ExchangeTypes, Order, ToSet
    <3>4. LeftWith(s, r)
      BY <2>4, <2>6, <3>1, <3>2, <3>3 DEF LeftWith, Store
    <3> QED BY <2>3, <3>4
  <2> QED BY <2>5, <2>6
<1>2. CASE RefuseOutcome \/ WriteFails
  <2>1. at' = Returned
    BY <1>2 DEF RefuseOutcome, WriteFails, Fail
  <2> QED BY <2>1 DEF Returned
<1> QED BY <1>1, <1>2 DEF Next, Claim, FinishModule, BuildItem, Built, Hello, WorkerRefuses, WorkerComputes,
          WorkerAnswers, WorkerMisanswers, WorkerExits
-----------------------------------------------------------------------------
(* The resources of a job: the inductive invariant                         *)

Names == {"caption", "classify", "replace", "ocr", "dropout", "tokenBudget", "quality", "countReview"}
Shaped(c) ==
  /\ Names \subseteq DOMAIN c /\ \A name \in DOMAIN c : "enabled" \in DOMAIN c[name]
  /\ \A name \in {"classify", "replace"} : "indexMode" \in DOMAIN c[name]

Before == {"new", "refused", "ready", "confirming", "rejected"}
After == {"running", "reviewing", "failed"}

\* A worker of ocr or of the token budget is asked only where the module is on: elsewhere the
\* section names no package.
ResourceTypes ==
  /\ Shaped(asked) /\ Shaped(config)
  /\ stage \in Before \cup After /\ (stage \in Before => loaded = {} /\ queue = {})
  /\ \A m \in queue : R!SectionOf(m) \in R!Sections(config)

\* What a section of the configuration is frozen to is what the preflight showed.
Kept(c, name) ==
  IF name = "replace" /\ R!IsCustom(c, name)
  THEN c.replace.customIndexSha256 = accepted.replace /\ "customIndexSha256" \in DOMAIN c.replace
  ELSE c[name].resourceFingerprint = accepted[name] /\ "resourceFingerprint" \in DOMAIN c[name]
AcceptedInv ==
  stage \in {"ready", "confirming"} \cup After => \A name \in R!Sections(config) : Kept(config, name)

\* What was loaded is what was accepted, and only a weights file may hold something else.
LoadedInv ==
  \A l \in loaded :
    /\ l.what = accepted[R!SectionOf(l.module)]
    /\ l.changed # {} => l.module = "caption" /\ l.changed \subseteq R!Weights(l.what)

ResourceInv == ResourceTypes /\ AcceptedInv /\ LoadedInv

\* The caption package of a job that was submitted once, while nothing is touched, is as the
\* preflight hashed it: with an empty cache.
WholeInv ==
  /\ submits \in Nat /\ (stage # "new" => submits > 0)
  /\ submits = 0 => hashCache = {}
  /\ "caption" \in queue => config.caption.enabled
  /\ (stage \in {"ready", "confirming"} \cup After /\ config.caption.enabled /\ ~touched /\ submits <= 1) =>
       R!Changed(R!Package("caption")) = {}
  /\ \A l \in loaded : l.changed # {} => touched \/ submits > 1

-----------------------------------------------------------------------------
(* Sections                                                                *)

LEMMA SetHas ==
  ASSUME NEW section, NEW fields
  PROVE  /\ DOMAIN R!Set(section, fields) = DOMAIN section \cup DOMAIN fields
         /\ \A f \in DOMAIN fields : R!Set(section, fields)[f] = fields[f]
         /\ \A f \in DOMAIN section : f \notin DOMAIN fields => R!Set(section, fields)[f] = section[f]
BY DEF R!Set

LEMMA FieldSet ==
  ASSUME NEW section, NEW fields, NEW f \in DOMAIN fields
  PROVE  f \in DOMAIN R!Set(section, fields) /\ R!Set(section, fields)[f] = fields[f]
BY DEF R!Set
LEMMA FieldLeft ==
  ASSUME NEW section, NEW fields, NEW f \in DOMAIN section, f \notin DOMAIN fields
  PROVE  f \in DOMAIN R!Set(section, fields) /\ R!Set(section, fields)[f] = section[f]
BY SetHas

\* The preflight sets neither a switch nor the kind of an index.
LEMMA FieldsOfFreeze ==
  ASSUME NEW section, NEW place
  PROVE  /\ R!Freeze(section, place).resourceFingerprint = R!FingerprintAt(place)
         /\ DOMAIN R!Freeze(section, place)
              = DOMAIN section \cup {"resourceId", "resourceManifestRelativePath", "resourceFingerprint"}
         /\ \A f \in {"enabled", "indexMode"} : f \in DOMAIN section => R!Freeze(section, place)[f] = section[f]
<1> DEFINE fields == [resourceId |-> R!Id(place), resourceManifestRelativePath |-> place,
                      resourceFingerprint |-> R!FingerprintAt(place)]
<1>1. DOMAIN fields = {"resourceId", "resourceManifestRelativePath", "resourceFingerprint"}
  OBVIOUS
<1>2. fields["resourceFingerprint"] = R!FingerprintAt(place)
  OBVIOUS
<1> HIDE DEF fields
<1>3. R!Freeze(section, place) = R!Set(section, fields)
  BY DEF R!Freeze, fields
<1>4. DOMAIN R!Freeze(section, place) = DOMAIN section \cup DOMAIN fields
  BY <1>3, SetHas
<1>5. R!Freeze(section, place)["resourceFingerprint"] = R!FingerprintAt(place)
  BY <1>1, <1>2, <1>3, FieldSet
<1>6. ASSUME NEW f \in {"enabled", "indexMode"}, f \in DOMAIN section
      PROVE  R!Freeze(section, place)[f] = section[f]
  <2>1. f \notin DOMAIN fields
    BY <1>1
  <2> QED BY <1>3, <1>6, <2>1, FieldLeft
<1> QED BY <1>1, <1>4, <1>5, <1>6

\* A switch of a section.
Switches == {"enabled", "indexMode"}
SameSwitches(a, b) == \A f \in Switches : f \in DOMAIN a => f \in DOMAIN b /\ b[f] = a[f]

\* What a preflight finds for a section.
FingerprintFor(c, name) ==
  IF R!IsCustom(c, name) THEN R!Fingerprint(custom.index.manifest)
  ELSE R!FingerprintAt(R!PlaceOf(c, name, c.tokenBudget.enabled))

\* What the preflight sees of a custom index.
LEMMA InspectedAs ==
  ASSUME NEW p
  PROVE  /\ DOMAIN R!Inspected(p) \cap Switches = {} /\ "resourceFingerprint" \in DOMAIN R!Inspected(p)
         /\ R!Inspected(p)["resourceFingerprint"] = R!Fingerprint(p.manifest)
<1> DEFINE first == [resourceId |-> p.manifest.resourceId, resourceFingerprint |-> R!Fingerprint(p.manifest),
                     customResourceContentSha256 |-> R!ContentDigest(p)]
           second == R!MetadataFields(p.manifest)
<1>1. R!Inspected(p) = R!Set(first, second)
  BY DEF R!Inspected
<1>2. /\ DOMAIN first = {"resourceId", "resourceFingerprint", "customResourceContentSha256"}
      /\ first["resourceFingerprint"] = R!Fingerprint(p.manifest)
  OBVIOUS
<1>3. DOMAIN second = {"wikiDataSourceId", "dictionaryEntryCount", "resourceProfile"}
  BY DEF R!MetadataFields
<1> HIDE DEF first, second
<1>4. DOMAIN R!Inspected(p) = DOMAIN first \cup DOMAIN second
  BY <1>1, SetHas
<1>5. R!Inspected(p)["resourceFingerprint"] = first["resourceFingerprint"]
  <2>1. "resourceFingerprint" \in DOMAIN first /\ "resourceFingerprint" \notin DOMAIN second
    BY <1>2, <1>3
  <2> QED BY <1>1, <2>1, FieldLeft
<1> QED BY <1>2, <1>3, <1>4, <1>5 DEF Switches

LEMMA ResolvedSections ==
  ASSUME NEW c, Shaped(c), NEW name \in DOMAIN c
  PROVE  /\ SameSwitches(c[name], R!ResolvedSection(c, name))
         /\ (name = "replace" /\ R!IsCustom(c, name) => R!ResolvedSection(c, name) = c[name])
         /\ (name \in R!Sections(c) /\ ~(name = "replace" /\ R!IsCustom(c, name)) =>
               /\ "resourceFingerprint" \in DOMAIN R!ResolvedSection(c, name)
               /\ R!ResolvedSection(c, name).resourceFingerprint = FingerprintFor(c, name))
<1> DEFINE place == R!PlaceOf(c, name, c.tokenBudget.enabled)
           m == library[place].manifest
           s == R!ResolvedSection(c, name)
           frozen == R!Freeze(c[name], place)
<1>1. /\ SameSwitches(c[name], frozen) /\ frozen.resourceFingerprint = R!FingerprintAt(place)
      /\ "resourceFingerprint" \in DOMAIN frozen
  <2> DEFINE section == c[name]
  <2> HIDE DEF section, place
  <2>1. /\ R!Freeze(section, place).resourceFingerprint = R!FingerprintAt(place)
        /\ DOMAIN R!Freeze(section, place)
             = DOMAIN section \cup {"resourceId", "resourceManifestRelativePath", "resourceFingerprint"}
        /\ \A f \in Switches : f \in DOMAIN section => R!Freeze(section, place)[f] = section[f]
    BY FieldsOfFreeze DEF Switches
  <2>2. SameSwitches(section, R!Freeze(section, place))
    BY <2>1 DEF SameSwitches
  <2> QED BY <2>1, <2>2 DEF section
<1> HIDE DEF frozen
<1>2. ASSUME NEW fields, NEW t, DOMAIN fields \cap {"enabled", "indexMode", "resourceFingerprint"} = {}
      PROVE  /\ SameSwitches(t, R!Set(t, fields))
             /\ "resourceFingerprint" \in DOMAIN t =>
                  /\ "resourceFingerprint" \in DOMAIN R!Set(t, fields)
                  /\ R!Set(t, fields).resourceFingerprint = t.resourceFingerprint
  <2> DEFINE u == R!Set(t, fields)
  <2>1. \A f \in {"enabled", "indexMode", "resourceFingerprint"} : f \notin DOMAIN fields
    BY <1>2
  <2>2. \A f \in {"enabled", "indexMode", "resourceFingerprint"} : f \in DOMAIN t => f \in DOMAIN u /\ u[f] = t[f]
    BY <2>1, SetHas
  <2> HIDE DEF u
  <2>3. "resourceFingerprint" \in DOMAIN t => "resourceFingerprint" \in DOMAIN u /\ u["resourceFingerprint"] = t["resourceFingerprint"]
    BY <2>2
  <2>4. SameSwitches(t, u)
    BY <2>2 DEF SameSwitches, Switches
  <2> QED BY <2>3, <2>4 DEF u
<1>3. CASE name = "classify" /\ R!IsCustom(c, name)
  <2> DEFINE fields == R!Inspected(custom.index)
  <2>1. s = R!Set(c[name], fields)
    BY <1>3 DEF R!ResolvedSection
  <2>2. /\ DOMAIN fields \cap Switches = {} /\ "resourceFingerprint" \in DOMAIN fields
        /\ fields["resourceFingerprint"] = R!Fingerprint(custom.index.manifest)
    BY InspectedAs
  <2> HIDE DEF fields
  <2>3. \A f \in Switches : f \notin DOMAIN fields
    BY <2>2
  <2>4. SameSwitches(c[name], s)
    BY <2>1, <2>3, FieldLeft DEF SameSwitches
  <2>5. "resourceFingerprint" \in DOMAIN s /\ s["resourceFingerprint"] = fields["resourceFingerprint"]
    BY <2>1, <2>2, FieldSet
  <2> HIDE DEF s
  <2> QED BY <1>3, <2>2, <2>4, <2>5 DEF FingerprintFor, s
<1>4. CASE name = "classify" /\ ~R!IsCustom(c, name)
  <2> DEFINE fields == R!MetadataFields(m)
  <2>1. s = R!Set(frozen, fields)
    BY <1>4 DEF R!ResolvedSection, frozen
  <2>2. DOMAIN fields = {"wikiDataSourceId", "dictionaryEntryCount", "resourceProfile"}
    BY DEF R!MetadataFields
  <2> HIDE DEF fields, frozen
  <2>3. SameSwitches(frozen, s) /\ "resourceFingerprint" \in DOMAIN s /\ s.resourceFingerprint = frozen.resourceFingerprint
    BY <1>1, <1>2, <2>1, <2>2
  <2> QED BY <1>1, <1>4, <2>3 DEF SameSwitches, FingerprintFor
<1>5. CASE name = "tokenBudget" /\ c.tokenBudget.enabled
  <2> DEFINE fields == [contextLimit |-> m.contextLimit]
  <2>1. s = R!Set(frozen, fields)
    BY <1>5 DEF R!ResolvedSection, frozen
  <2>2. DOMAIN fields = {"contextLimit"}
    OBVIOUS
  <2> HIDE DEF fields, frozen
  <2>3. SameSwitches(frozen, s) /\ "resourceFingerprint" \in DOMAIN s /\ s.resourceFingerprint = frozen.resourceFingerprint
    BY <1>1, <1>2, <2>1, <2>2
  <2> QED BY <1>1, <1>5, <2>3 DEF SameSwitches, FingerprintFor, R!IsCustom
<1>6. CASE name \in R!Resolvable(c) \ {"classify", "tokenBudget"}
  <2>1. s = frozen /\ ~R!IsCustom(c, name)
    BY <1>6 DEF R!ResolvedSection, R!Resolvable, R!IsCustom, frozen
  <2> HIDE DEF s, frozen
  <2> QED BY <1>1, <2>1 DEF FingerprintFor, s
<1>7. CASE /\ name # "classify" /\ ~(name = "tokenBudget" /\ c.tokenBudget.enabled)
           /\ name \notin R!Resolvable(c) \ {"classify", "tokenBudget"}
  <2>1. s = c[name]
    BY <1>7 DEF R!ResolvedSection
  <2>2. name \in R!Sections(c) => name = "replace" /\ R!IsCustom(c, name)
    BY <1>7 DEF R!Sections, R!Resolvable
  <2> QED BY <2>1, <2>2 DEF SameSwitches
<1>8. name = "replace" /\ R!IsCustom(c, name) => s = c[name]
  BY DEF R!ResolvedSection, R!Resolvable
<1> HIDE DEF s
<1> QED BY <1>3, <1>4, <1>5, <1>6, <1>7, <1>8 DEF s

\* Nothing but the switches says which sections there are.
LEMMA SameSections ==
  ASSUME NEW c, Shaped(c), NEW d, DOMAIN d = DOMAIN c, \A name \in DOMAIN c : SameSwitches(c[name], d[name])
  PROVE  /\ Shaped(d) /\ R!Sections(d) = R!Sections(c)
         /\ \A name \in Names : R!IsCustom(d, name) = R!IsCustom(c, name) /\ d[name].enabled = c[name].enabled
<1>1. \A name \in {"classify", "replace"} :
        /\ name \in DOMAIN c /\ "indexMode" \in DOMAIN c[name]
        /\ d[name].indexMode = c[name].indexMode /\ "indexMode" \in DOMAIN d[name]
  BY DEF Shaped, Names, SameSwitches, Switches
<1>2. \A name \in DOMAIN c : d[name].enabled = c[name].enabled /\ "enabled" \in DOMAIN d[name]
  BY DEF Shaped, SameSwitches, Switches
<1>3. \A name : R!IsCustom(d, name) = R!IsCustom(c, name)
  BY <1>1 DEF R!IsCustom
<1>4. {"ocr", "tokenBudget"} \subseteq DOMAIN c
  BY DEF Shaped, Names
<1>5. R!Resolvable(d) = R!Resolvable(c)
  BY <1>2, <1>3, <1>4 DEF R!Resolvable
<1> QED BY <1>1, <1>2, <1>3, <1>5 DEF Shaped, Names, R!Sections

LEMMA ResolvedKeeps ==
  ASSUME NEW c, Shaped(c)
  PROVE  /\ DOMAIN R!Resolved(c) = DOMAIN c /\ \A name \in DOMAIN c : SameSwitches(c[name], R!Resolved(c)[name])
         /\ \A name \in DOMAIN c : R!Resolved(c)[name] = R!ResolvedSection(c, name)
BY ResolvedSections DEF R!Resolved

\* One package has the id of a section: two of them, and the scan takes neither.
LEMMA OnePackage ==
  ASSUME NEW c, NEW name, NEW tokenizers, NEW place \in R!Packages(c, name, tokenizers)
  PROVE  R!PlaceOf(c, name, tokenizers) = place
<1>1. ASSUME NEW other \in R!Packages(c, name, tokenizers) PROVE other = place
  BY DEF R!Packages, R!Found, R!Scan
<1> QED BY <1>1 DEF R!PlaceOf

-----------------------------------------------------------------------------
(* The resources of a job: its steps                                       *)

LEMMA ResourcesStart == ASSUME R!Init PROVE ResourceInv
<1>1. PICK job \in Libraries : asked = job.config /\ config = job.config
  BY DEF R!Init
<1>2. Shaped(job.config)
  BY LibrariesAssumption DEF Shaped, Names
<1> QED BY <1>1, <1>2 DEF R!Init, ResourceInv, ResourceTypes, AcceptedInv, LoadedInv, Before, After

\* What the preflight stores.
LEMMA FrozenKeeps ==
  ASSUME NEW c, Shaped(c)
  PROVE  /\ Shaped(R!Frozen(c)) /\ R!Sections(R!Frozen(c)) = R!Sections(c)
         /\ \A name \in Names : R!IsCustom(R!Frozen(c), name) = R!IsCustom(c, name)
         /\ \A name \in R!Sections(c) \ {"replace"} : R!Frozen(c)[name] = R!ResolvedSection(c, name)
         /\ ~R!IsCustom(c, "replace") => R!Frozen(c)["replace"] = R!ResolvedSection(c, "replace")
         /\ R!IsCustom(c, "replace") =>
              /\ "customIndexSha256" \in DOMAIN R!Frozen(c)["replace"]
              /\ R!Frozen(c)["replace"].customIndexSha256 = custom.csv
<1> DEFINE r == R!Resolved(c)  d == R!Frozen(c)
           fields == [customIndexSha256 |-> custom.csv, customIndexRuleCount |-> R!Len(custom.csv.rows)]
<1>1. /\ DOMAIN r = DOMAIN c /\ \A name \in DOMAIN c : SameSwitches(c[name], r[name])
      /\ \A name \in DOMAIN c : r[name] = R!ResolvedSection(c, name)
  BY ResolvedKeeps
<1>2. d = IF R!IsCustom(c, "replace") THEN [r EXCEPT !["replace"] = R!Set(r["replace"], fields)] ELSE r
  BY DEF R!Frozen
<1>3. DOMAIN fields = {"customIndexSha256", "customIndexRuleCount"} /\ fields["customIndexSha256"] = custom.csv
  OBVIOUS
<1>4. Names \subseteq DOMAIN c /\ "replace" \in DOMAIN r
  BY <1>1 DEF Shaped, Names
<1> HIDE DEF r, d, fields
<1>5. /\ "customIndexSha256" \in DOMAIN R!Set(r["replace"], fields)
      /\ R!Set(r["replace"], fields)["customIndexSha256"] = custom.csv
  BY <1>3, FieldSet
<1>6. SameSwitches(r["replace"], R!Set(r["replace"], fields))
  BY <1>3, FieldLeft DEF SameSwitches, Switches
<1>7. SameSwitches(c["replace"], R!Set(r["replace"], fields))
  BY <1>1, <1>4, <1>6 DEF SameSwitches
<1>8. DOMAIN d = DOMAIN c /\ \A name \in DOMAIN c : SameSwitches(c[name], d[name])
  BY <1>1, <1>2, <1>4, <1>7
<1>9. /\ Shaped(d) /\ R!Sections(d) = R!Sections(c)
      /\ \A name \in Names : R!IsCustom(d, name) = R!IsCustom(c, name)
  BY <1>8, SameSections
<1>10. R!Sections(c) \subseteq DOMAIN c
  BY <1>4 DEF R!Sections, R!Resolvable, Names
<1>11. \A name \in R!Sections(c) \ {"replace"} : d[name] = R!ResolvedSection(c, name)
  BY <1>1, <1>2, <1>10
<1>12. ~R!IsCustom(c, "replace") => d["replace"] = R!ResolvedSection(c, "replace")
  BY <1>1, <1>2, <1>4
<1>13. R!IsCustom(c, "replace") => d["replace"] = R!Set(r["replace"], fields)
  BY <1>2, <1>4
<1> QED BY <1>5, <1>9, <1>11, <1>12, <1>13 DEF d

LEMMA SectionNames == ASSUME NEW c PROVE R!Sections(c) \subseteq Names
BY DEF R!Sections, R!Resolvable, Names

LEMMA PreflightKeeps == ASSUME ResourceInv, R!Preflight PROVE ResourceInv'
<1> USE DEF ResourceInv
<1>0. stage = "new" /\ loaded = {} /\ UNCHANGED <<asked, queue, loaded>>
  BY DEF R!Preflight, ResourceTypes, Before
<1>1. CASE ~R!PreflightOk(config)
  <2>1. stage' = "refused" /\ UNCHANGED config
    BY <1>1 DEF R!Preflight
  <2> QED BY <1>0, <2>1 DEF ResourceTypes, AcceptedInv, LoadedInv, Before, After
<1>2. CASE R!PreflightOk(config)
  <2> DEFINE c == config  d == R!Frozen(config)
  <2>1. /\ config' = d /\ stage' = "ready"
        /\ accepted' = [name \in R!Sections(c) |->
             CASE name = "replace" /\ R!IsCustom(c, name) -> custom.csv
               [] name = "classify" /\ R!IsCustom(c, name) -> R!Fingerprint(custom.index.manifest)
               [] OTHER -> R!FingerprintAt(R!PlaceOf(c, name, c.tokenBudget.enabled))]
    BY <1>2 DEF R!Preflight
  <2>2. Shaped(c) /\ Shaped(d) /\ R!Sections(d) = R!Sections(c)
        /\ \A name \in Names : R!IsCustom(d, name) = R!IsCustom(c, name)
    BY FrozenKeeps DEF ResourceTypes
  <2>3. ASSUME NEW name \in R!Sections(c) PROVE Kept(config, name)'
    <3>1. name \in Names
      BY SectionNames
    <3> HIDE DEF d
    <3>0. R!IsCustom(config, name)' = R!IsCustom(c, name)
      BY <2>1, <2>2, <3>1 DEF R!IsCustom
    <3>2. CASE name = "replace" /\ R!IsCustom(c, name)
      <4>1. accepted'["replace"] = custom.csv
        BY <2>1, <3>2
      <4>2. "customIndexSha256" \in DOMAIN d["replace"] /\ d["replace"].customIndexSha256 = custom.csv
        BY <2>2, <3>2, FrozenKeeps DEF d
      <4> QED BY <2>1, <3>0, <3>2, <4>1, <4>2 DEF Kept
    <3>3. CASE ~(name = "replace" /\ R!IsCustom(c, name))
      <4>1. accepted'[name] = FingerprintFor(c, name)
        BY <2>1, <3>3 DEF FingerprintFor, R!IsCustom
      <4>2. d[name] = R!ResolvedSection(c, name)
        BY <2>2, <3>3, FrozenKeeps DEF d
      <4>3. d[name]["resourceFingerprint"] = FingerprintFor(c, name) /\ "resourceFingerprint" \in DOMAIN d[name]
        BY <2>2, <3>3, <3>1, <4>2, ResolvedSections DEF Shaped
      <4> QED BY <2>1, <3>0, <3>3, <4>1, <4>3 DEF Kept
    <3> QED BY <3>2, <3>3
  <2>4. R!Sections(config)' = R!Sections(c) /\ R!Sections(c) = R!Sections(config)
    BY <2>1, <2>2 DEF R!Sections, R!Resolvable, R!IsCustom
  <2>5. AcceptedInv'
    BY <2>3, <2>4 DEF AcceptedInv
  <2>6. Shaped(config)' /\ Shaped(asked)'
    BY <1>0, <2>1, <2>2 DEF Shaped, Names, ResourceTypes
  <2>7. LoadedInv'
    BY <1>0 DEF LoadedInv
  <2>8. \A m \in queue' : (R!SectionOf(m) \in R!Sections(config))'
    BY <1>0, <2>4 DEF ResourceTypes, R!SectionOf
  <2>9. ResourceTypes'
    BY <1>0, <2>1, <2>6, <2>8 DEF ResourceTypes, Before
  <2> QED BY <2>5, <2>7, <2>9
<1> QED BY <1>1, <1>2

\* The confirmation finds the same packages again.
LEMMA ResolvesAgain ==
  ASSUME R!ResolveOk(config, FALSE), NEW name \in R!Sections(config), Kept(config, name),
         ~(name = "replace" /\ R!IsCustom(config, name))
  PROVE  FingerprintFor(config, name) = accepted[name]
<1>1. config[name]["resourceFingerprint"] = accepted[name] /\ "resourceFingerprint" \in DOMAIN config[name]
  BY DEF Kept
<1>2. CASE R!IsCustom(config, name)
  <2>1. name = "classify"
    BY <1>2 DEF R!IsCustom
  <2>2. \A field \in DOMAIN R!Inspected(custom.index) :
          config.classify[field] = R!Inspected(custom.index)[field]
    BY <1>2, <2>1 DEF R!ResolveOk, R!CustomResolves
  <2>3. config.classify["resourceFingerprint"] = R!Fingerprint(custom.index.manifest)
    BY <2>2, InspectedAs
  <2> QED BY <1>1, <1>2, <2>1, <2>3 DEF FingerprintFor
<1>3. CASE ~R!IsCustom(config, name)
  <2>1. name \in R!Resolvable(config)
    BY <1>3 DEF R!Sections
  <2>2. R!SectionResolves(config, name, FALSE)
    BY <2>1 DEF R!ResolveOk
  <2>3. PICK place \in R!Packages(config, name, config.tokenBudget.enabled) :
          DOMAIN config[name] \cap {"resourceManifestRelativePath", "resourceFingerprint"} = {}
          \/ R!Refers(config[name], place)
    BY <2>2 DEF R!SectionResolves
  <2>4. R!Refers(config[name], place)
    BY <1>1, <2>3
  <2>5. R!PlaceOf(config, name, config.tokenBudget.enabled) = place
    BY OnePackage
  <2> QED BY <1>1, <1>3, <2>4, <2>5 DEF FingerprintFor, R!Refers
<1> QED BY <1>2, <1>3

LEMMA ConfirmKeeps == ASSUME ResourceInv, R!ConfirmResolve PROVE ResourceInv'
<1> USE DEF ResourceInv
<1>0. /\ stage = "ready" /\ loaded = {} /\ UNCHANGED <<asked, queue, loaded, accepted>>
      /\ stage' \in {"confirming", "rejected"}
  BY DEF R!ConfirmResolve, ResourceTypes, Before, R!history
<1>1. CASE ~R!ResolveOk(config, FALSE)
  <2>1. stage' = "rejected" /\ UNCHANGED config
    BY <1>1 DEF R!ConfirmResolve
  <2> QED BY <1>0, <2>1 DEF ResourceTypes, AcceptedInv, LoadedInv, Before, After
<1>2. CASE R!ResolveOk(config, FALSE)
  <2> DEFINE c == config  d == R!Resolved(config)
  <2>1. config' = d
    BY <1>2 DEF R!ConfirmResolve
  <2>2. Shaped(c) /\ DOMAIN d = DOMAIN c /\ (\A name \in DOMAIN c : SameSwitches(c[name], d[name]))
        /\ \A name \in DOMAIN c : d[name] = R!ResolvedSection(c, name)
    BY ResolvedKeeps DEF ResourceTypes
  <2>3. Shaped(d) /\ R!Sections(d) = R!Sections(c)
        /\ \A name \in Names : R!IsCustom(d, name) = R!IsCustom(c, name)
    BY <2>2, SameSections
  <2> HIDE DEF d
  <2>4. ASSUME NEW name \in R!Sections(c) PROVE Kept(config, name)'
    <3>1. name \in Names /\ name \in DOMAIN c
      BY <2>2, SectionNames DEF Shaped
    <3>2. Kept(config, name)
      BY <1>0 DEF AcceptedInv
    <3>3. R!IsCustom(config, name)' = R!IsCustom(c, name)
      BY <2>1, <2>3, <3>1 DEF R!IsCustom
    <3>4. CASE name = "replace" /\ R!IsCustom(c, name)
      <4>1. d["replace"] = c["replace"]
        BY <2>2, <3>1, <3>4, ResolvedSections
      <4> QED BY <1>0, <2>1, <3>2, <3>3, <3>4, <4>1 DEF Kept
    <3>5. CASE ~(name = "replace" /\ R!IsCustom(c, name))
      <4>1. "resourceFingerprint" \in DOMAIN d[name] /\ d[name]["resourceFingerprint"] = FingerprintFor(c, name)
        BY <2>2, <3>1, <3>5, ResolvedSections
      <4>2. FingerprintFor(c, name) = accepted[name]
        BY <1>2, <3>2, <3>5, ResolvesAgain
      <4> QED BY <1>0, <2>1, <3>3, <3>5, <4>1, <4>2 DEF Kept
    <3> QED BY <3>4, <3>5
  <2>5. R!Sections(config)' = R!Sections(c) /\ R!Sections(c) = R!Sections(config)
    BY <2>1, <2>3 DEF R!Sections, R!Resolvable, R!IsCustom
  <2>6. AcceptedInv'
    BY <2>4, <2>5 DEF AcceptedInv
  <2>7. Shaped(config)' /\ Shaped(asked)'
    BY <1>0, <2>1, <2>3 DEF Shaped, Names, ResourceTypes
  <2>8. LoadedInv'
    BY <1>0 DEF LoadedInv
  <2>9. \A m \in queue' : (R!SectionOf(m) \in R!Sections(config))'
    BY <1>0, <2>5 DEF ResourceTypes, R!SectionOf
  <2>10. ResourceTypes'
    BY <1>0, <2>7, <2>9 DEF ResourceTypes, Before
  <2> QED BY <2>6, <2>8, <2>10
<1> QED BY <1>1, <1>2

\* A module that is on has its section.
LEMMA EnabledSections == ASSUME NEW m \in R!EnabledModules(config) PROVE R!SectionOf(m) \in R!Sections(config)
<1>1. m \in R!ToSet(R!Modules) /\ R!Enabled(config, m)
  BY DEF R!EnabledModules
<1>2. m \in {"caption", "classify", "replace", "ocr", "dropout", "token_budget"}
  BY <1>1 DEF R!ToSet, R!Modules
<1>3. {"caption", "classify", "replace", "quality"} \subseteq R!Sections(config)
  BY DEF R!Sections, R!Resolvable, R!IsCustom
<1>4. CASE m \in {"caption", "classify", "replace", "dropout"}
  BY <1>3, <1>4 DEF R!SectionOf
<1>5. CASE m \in {"ocr", "token_budget"}
  <2>1. R!SectionOf(m) \in {"ocr", "tokenBudget"}
    BY <1>5 DEF R!SectionOf
  <2>2. config[R!SectionOf(m)].enabled
    BY <1>1, <1>5 DEF R!Enabled
  <2> QED BY <2>1, <2>2 DEF R!Sections, R!Resolvable
<1> QED BY <1>2, <1>4, <1>5

\* The frozen copy of a custom index stands in the section for the index that was inspected.
LEMMA FreezeKeeps == ASSUME ResourceInv, R!ConfirmFreeze PROVE ResourceInv'
<1> USE DEF ResourceInv
<1>0. /\ stage = "confirming" /\ loaded = {} /\ UNCHANGED <<asked, loaded, accepted>>
      /\ \/ stage' = "rejected" /\ UNCHANGED <<config, queue>>
         \/ /\ stage' = "running" /\ queue' = R!EnabledModules(config)
            /\ config' = IF R!IsCustom(config, "classify") THEN [config EXCEPT !["classify"] = R!FrozenClassify]
                         ELSE config
  BY DEF R!ConfirmFreeze, ResourceTypes, Before, R!history
<1>1. CASE stage' = "rejected" /\ UNCHANGED <<config, queue>>
  BY <1>0, <1>1 DEF ResourceTypes, AcceptedInv, LoadedInv, Before, After
<1>2. CASE stage' = "running" /\ queue' = R!EnabledModules(config)
  <2> DEFINE c == config  d == config'  s == config.classify  t == R!FrozenClassify
             rest == R!Restrict(s, DOMAIN s \ {"customResourcePath", "customResourceContentSha256"})
             fields == [resourceManifestRelativePath |-> R!CopyPlace]
  <2>0. Shaped(c) /\ Names \subseteq DOMAIN c /\ {"enabled", "indexMode"} \subseteq DOMAIN c["classify"]
    BY DEF ResourceTypes, Shaped, Names
  <2>1. DOMAIN fields = {"resourceManifestRelativePath"}
    OBVIOUS
  <2>2. /\ \A f \in {"enabled", "indexMode", "resourceFingerprint"} :
             f \in DOMAIN s => f \in DOMAIN rest /\ rest[f] = s[f]
        /\ t = R!Set(rest, fields)
    BY DEF R!Restrict, R!FrozenClassify
  <2> HIDE DEF rest, fields, t
  <2>3. \A f \in {"enabled", "indexMode", "resourceFingerprint"} : f \in DOMAIN s => f \in DOMAIN t /\ t[f] = s[f]
    BY <2>1, <2>2, FieldLeft
  <2>4. /\ DOMAIN d = DOMAIN c /\ \A name \in DOMAIN c : SameSwitches(c[name], d[name])
        /\ d["classify"] \in {s, t} /\ \A name \in DOMAIN c \ {"classify"} : d[name] = c[name]
    <3>1. d = c \/ d = [c EXCEPT !["classify"] = t]
      BY <1>0, <1>2 DEF t
    <3>2. SameSwitches(c["classify"], t)
      BY <2>3 DEF SameSwitches, Switches
    <3>3. \A name : SameSwitches(c[name], c[name])
      BY DEF SameSwitches
    <3>4. "classify" \in DOMAIN c
      BY <2>0 DEF Names
    <3> QED BY <3>1, <3>2, <3>3, <3>4
  <2>5. Shaped(d) /\ R!Sections(d) = R!Sections(c)
        /\ \A name \in Names : R!IsCustom(d, name) = R!IsCustom(c, name)
    BY <2>0, <2>4, SameSections
  <2>6. ASSUME NEW name \in R!Sections(c) PROVE Kept(config, name)'
    <3>1. name \in Names /\ name \in DOMAIN c
      BY <2>0, SectionNames
    <3>2. Kept(config, name)
      BY <1>0 DEF AcceptedInv
    <3>3. R!IsCustom(config, name)' = R!IsCustom(c, name)
      BY <2>5, <3>1 DEF R!IsCustom
    <3>4. CASE name # "classify"
      BY <1>0, <2>4, <3>1, <3>2, <3>3, <3>4 DEF Kept
    <3>5. CASE name = "classify"
      <4>1. c["classify"]["resourceFingerprint"] = accepted["classify"] /\ "resourceFingerprint" \in DOMAIN s
        BY <3>2, <3>5 DEF Kept
      <4>2. d["classify"]["resourceFingerprint"] = accepted["classify"] /\ "resourceFingerprint" \in DOMAIN d["classify"]
        BY <2>3, <2>4, <4>1
      <4> QED BY <1>0, <3>5, <4>2 DEF Kept
    <3> QED BY <3>4, <3>5
  <2>7. R!Sections(config)' = R!Sections(c) /\ R!Sections(c) = R!Sections(config)
    BY <2>5 DEF R!Sections, R!Resolvable, R!IsCustom
  <2>8. AcceptedInv'
    BY <2>6, <2>7 DEF AcceptedInv
  <2>9. Shaped(config)' /\ Shaped(asked)'
    BY <1>0, <2>5 DEF Shaped, Names, ResourceTypes
  <2>10. LoadedInv'
    BY <1>0 DEF LoadedInv
  <2>11. \A m \in queue' : R!SectionOf(m) \in R!Sections(config)
    BY <1>2, EnabledSections
  <2>12. ResourceTypes'
    BY <1>0, <1>2, <2>7, <2>9, <2>11 DEF ResourceTypes, Before, After, R!SectionOf
  <2> QED BY <2>8, <2>10, <2>12
<1> QED BY <1>0, <1>1, <1>2

LEMMA SubmitKeeps == ASSUME ResourceInv, R!SubmitAgain PROVE ResourceInv'
<1>1. /\ stage = "ready" /\ stage' = "new" /\ config' = asked /\ loaded = {} /\ UNCHANGED <<asked, queue, loaded>>
  BY DEF R!SubmitAgain, ResourceInv, ResourceTypes, Before
<1>2. queue = {}
  BY <1>1 DEF ResourceInv, ResourceTypes, Before
<1> QED BY <1>1, <1>2 DEF ResourceInv, ResourceTypes, AcceptedInv, LoadedInv, Before, After, Shaped, Names

LEMMA RepairKeeps == ASSUME ResourceInv, R!Repair PROVE ResourceInv'
<1>1. /\ stage \in {"reviewing", "failed"} /\ stage' = "running" /\ queue' = R!EnabledModules(config)
      /\ UNCHANGED <<asked, config, accepted, loaded>>
  BY DEF R!Repair
<1>2. \A m \in queue' : R!SectionOf(m) \in R!Sections(config)
  BY <1>1, EnabledSections
<1> QED BY <1>1, <1>2 DEF ResourceInv, ResourceTypes, AcceptedInv, LoadedInv, Before, After, Kept, Shaped, Names,
           R!Sections, R!Resolvable, R!IsCustom, R!SectionOf

-----------------------------------------------------------------------------
(* What a worker that took its package works with                          *)

\* A record without the fields of T, when it has none of the others of S.
LEMMA WithoutMore ==
  ASSUME NEW m, NEW T, NEW S, T \cap DOMAIN m = S \cap DOMAIN m
  PROVE  R!Without(m, T) = R!Without(m, S)
<1>1. DOMAIN m \ T = DOMAIN m \ S
  OBVIOUS
<1> QED BY <1>1 DEF R!Without, R!Restrict

\* What the worker of a module took has the fingerprint of its section, and every file holds
\* what the manifest records, the weights of caption excepted.
LEMMA TakenIsWhole ==
  ASSUME NEW m \in R!ToSet(R!Modules), R!WorkerLoads(m), R!UsesPackage(m)
  PROVE  /\ R!Content(m).what = config[R!SectionOf(m)].resourceFingerprint
         /\ m # "caption" => R!Content(m).changed = {}
         /\ m = "caption" => R!Content(m).changed \subseteq R!Weights(R!Content(m).what)
<1> DEFINE name == R!SectionOf(m)
           p == R!Package(name)
           place == config[name].resourceManifestRelativePath
           fingerprint == config[name].resourceFingerprint
           unhashed == IF m = "caption" THEN R!Weights(p.manifest) ELSE {}
<1>1. m \in {"caption", "classify", "replace", "ocr", "dropout", "token_budget"}
  BY DEF R!ToSet, R!Modules
<1>2. ~R!CustomRows(m)
  BY DEF R!UsesPackage
<1>3. R!Content(m).what = R!Fingerprint(p.manifest) /\ R!Content(m).changed = R!Changed(p)
  BY <1>2 DEF R!Content
<1>4. /\ m = "caption" => R!CaptionLoad(p, fingerprint)
      /\ m = "classify" => R!ClassifyLoad(p, fingerprint)
      /\ m = "replace" => R!ReplaceLoad(p, fingerprint)
      /\ m = "ocr" => R!OcrLoad(p, place, fingerprint)
      /\ m = "dropout" => R!PolicyLoad(p, fingerprint)
      /\ m = "token_budget" => R!TokenizerLoad(p, place, config.tokenBudget.resourceId, fingerprint,
                                               config.tokenBudget.contextLimit)
  BY <1>1 DEF R!WorkerLoads, R!CaptionInitialize, R!ClassifyInitialize, R!PolicyInitialize, R!SectionOf
<1> HIDE DEF p, fingerprint, unhashed, place, name
<1>5. CASE m # "token_budget"
  <2>1. R!Fingerprint(p.manifest) = fingerprint /\ p.manifest.kind # "tokenizer"
    BY <1>1, <1>4, <1>5 DEF R!CaptionLoad, R!ClassifyLoad, R!CatalogManifest, R!ReplaceLoad, R!OcrLoad, R!PolicyLoad,
       R!FieldsAndKind
  <2>2. R!Files(p.manifest) = p.manifest.files
    BY <2>1 DEF R!Files
  <2>3. \A path \in DOMAIN p.manifest.files \ unhashed : p.disk[path].data = p.manifest.files[path].sha256
    <3>1. CASE m = "caption"
      <4>1. R!SizeAndHash(p, R!HashedByCaption(p.manifest))
        BY <1>4, <3>1 DEF R!CaptionLoad
      <4> QED BY <2>2, <3>1, <4>1 DEF R!SizeAndHash, R!HashedByCaption, unhashed
    <3>2. CASE m \in {"classify", "ocr"}
      <4>1. R!SizeAndHash(p, DOMAIN p.manifest.files)
        BY <1>4, <3>2 DEF R!ClassifyLoad, R!OcrLoad
      <4> QED BY <2>2, <3>2, <4>1 DEF R!SizeAndHash
    <3>3. CASE m = "dropout"
      <4>1. R!SizeAndHash(p, R!Range(p.manifest.entrypoints)) /\ R!Range(p.manifest.entrypoints) = DOMAIN p.manifest.files
        BY <1>4, <3>3 DEF R!PolicyLoad
      <4> QED BY <2>2, <3>3, <4>1 DEF R!SizeAndHash
    <3>4. CASE m = "replace"
      <4>1. /\ R!SizeAndHash(p, {p.manifest.entrypoints.index}) /\ DOMAIN p.manifest.entrypoints = {"index"}
            /\ R!Range(p.manifest.entrypoints) = DOMAIN p.manifest.files
        BY <1>4, <3>4 DEF R!ReplaceLoad
      <4>2. R!Range(p.manifest.entrypoints) = {p.manifest.entrypoints.index}
        BY <4>1 DEF R!Range
      <4> QED BY <2>2, <3>4, <4>1, <4>2 DEF R!SizeAndHash
    <3> QED BY <1>1, <1>5, <3>1, <3>2, <3>3, <3>4
  <2>4. R!Changed(p) \subseteq unhashed
    BY <2>2, <2>3 DEF R!Changed
  <2>5. m = "caption" => R!Weights(R!Fingerprint(p.manifest)) = R!Weights(p.manifest)
    <3>1. m = "caption" => "entrypoints" \in DOMAIN p.manifest
      BY <1>4 DEF R!CaptionLoad, R!FieldsAndKind, R!COMMON_FIELDS_V1, R!COMMON_FIELDS_V2
    <3>2. ASSUME "entrypoints" \in DOMAIN p.manifest PROVE R!Fingerprint(p.manifest).entrypoints = p.manifest.entrypoints
      BY <3>2 DEF R!Fingerprint, R!Without, R!Restrict
    <3> QED BY <3>1, <3>2 DEF R!Weights
  <2> QED BY <1>3, <2>1, <2>4, <2>5 DEF fingerprint, name, unhashed
<1>6. CASE m = "token_budget"
  <2> DEFINE paths == [i \in DOMAIN p.manifest.files |-> p.manifest.files[i].path]
  <2>1. /\ DOMAIN p.manifest = R!TOKENIZER_FIELDS /\ p.manifest.kind = "tokenizer"
        /\ fingerprint = R!Without(p.manifest, {"fingerprint"})
        /\ R!SizeAndHash(p, R!ToSet(paths))
    BY <1>4, <1>6 DEF R!TokenizerLoad
  <2>2. R!Fingerprint(p.manifest) = fingerprint
    <3>1. {"fingerprint"} \cap DOMAIN p.manifest
            = {"fingerprint", "displayName", "description", "documentation"} \cap DOMAIN p.manifest
      BY <2>1 DEF R!TOKENIZER_FIELDS
    <3> QED BY <2>1, <3>1, WithoutMore DEF R!Fingerprint
  <2>3. DOMAIN R!Files(p.manifest) = R!ToSet(paths)
    BY <2>1 DEF R!Files, R!ToSet
  <2>4. R!Changed(p) = {}
    BY <2>1, <2>3 DEF R!Changed, R!SizeAndHash
  <2> QED BY <1>3, <1>6, <2>2, <2>4 DEF fingerprint, name, unhashed
<1> QED BY <1>5, <1>6

LEMMA LoadKeeps == ASSUME ResourceInv, NEW m \in R!ToSet(R!Modules), R!Load(m) PROVE ResourceInv'
<1> DEFINE name == R!SectionOf(m)
<1>0. /\ stage = "running" /\ m \in queue /\ UNCHANGED <<asked, config, accepted>>
      /\ queue' \subseteq queue /\ stage' \in {"running", "reviewing", "failed"}
      /\ \/ loaded' = loaded
         \/ /\ R!WorkerLoads(m) /\ (R!UsesPackage(m) \/ R!CustomRows(m))
            /\ loaded' = loaded \cup {R!Content(m)}
  BY DEF R!Load, R!Running, R!Done, R!Fail
<1>1. name \in R!Sections(config) /\ Kept(config, name)
  BY <1>0 DEF ResourceInv, ResourceTypes, AcceptedInv, After
<1>2. ASSUME R!WorkerLoads(m), R!UsesPackage(m) \/ R!CustomRows(m)
      PROVE  /\ R!Content(m).what = accepted[name] /\ R!Content(m).module = m
             /\ R!Content(m).changed # {} =>
                  m = "caption" /\ R!Content(m).changed \subseteq R!Weights(R!Content(m).what)
  <2>1. CASE R!CustomRows(m)
    <3>1. m = "replace" /\ name = "replace" /\ R!IsCustom(config, "replace")
      BY <2>1 DEF R!CustomRows, R!SectionOf
    <3>2. overlay.csv = config.replace.customIndexSha256
      <4>1. ~R!UsesPackage(m)
        BY <2>1 DEF R!UsesPackage
      <4>2. R!CustomReplaceLoad(overlay.csv, config.replace.customIndexSha256, config.replace.customIndexRuleCount)
        BY <1>2, <2>1, <4>1 DEF R!WorkerLoads
      <4> QED BY <4>2 DEF R!CustomReplaceLoad
    <3>3. R!Content(m) = [module |-> m, what |-> overlay.csv, changed |-> {}]
      BY <2>1 DEF R!Content
    <3> QED BY <1>1, <3>1, <3>2, <3>3 DEF Kept
  <2>2. CASE ~R!CustomRows(m)
    <3>1. /\ R!Content(m).what = config[name].resourceFingerprint
          /\ R!Content(m).changed # {} =>
               m = "caption" /\ R!Content(m).changed \subseteq R!Weights(R!Content(m).what)
      BY <1>2, <2>2, TakenIsWhole
    <3>2. ~(name = "replace" /\ R!IsCustom(config, name))
      <4>1. name = "replace" => m = "replace"
        BY DEF R!SectionOf, R!ToSet, R!Modules
      <4> QED BY <2>2, <4>1 DEF R!CustomRows
    <3>3. R!Content(m).module = m
      BY <2>2 DEF R!Content
    <3> QED BY <1>1, <3>1, <3>2, <3>3 DEF Kept
  <2> QED BY <2>1, <2>2
<1>3. LoadedInv'
  BY <1>0, <1>2 DEF ResourceInv, LoadedInv, R!SectionOf
<1>4. ResourceTypes' /\ AcceptedInv'
  BY <1>0 DEF ResourceInv, ResourceTypes, AcceptedInv, Before, After, Shaped, Names, Kept, R!Sections, R!Resolvable,
     R!IsCustom, R!SectionOf
<1> QED BY <1>3, <1>4 DEF ResourceInv

\* The other steps change neither the configuration nor what was loaded.
LEMMA OthersKeep ==
  ASSUME ResourceInv, UNCHANGED <<asked, config, accepted, loaded>>, queue' \subseteq queue,
         stage' = stage \/ {stage, stage'} \subseteq After
  PROVE  ResourceInv'
<1>1. LoadedInv'
  BY DEF ResourceInv, LoadedInv, R!SectionOf
<1> QED BY <1>1 DEF ResourceInv, ResourceTypes, AcceptedInv, Before, After, Shaped, Names, Kept, R!Sections, R!Resolvable,
          R!IsCustom, R!SectionOf

LEMMA ResourcesNext == ASSUME ResourceInv, R!Next PROVE ResourceInv'
<1>1. ASSUME NEW m \in R!ToSet(R!Modules), R!Select(m) \/ R!RunnerCheck(m) \/ R!NoWork(m) \/ R!WorkerLost(m)
      PROVE  ResourceInv'
  BY <1>1, OthersKeep DEF R!Select, R!RunnerCheck, R!NoWork, R!WorkerLost, R!Running, R!Done, R!Fail, R!history, After
<1>2. CASE R!Restart \/ R!Change
  BY <1>2, OthersKeep DEF R!Restart, R!Change, R!history, R!files
<1> QED BY <1>1, <1>2, PreflightKeeps, SubmitKeeps, ConfirmKeeps, FreezeKeeps, LoadKeeps, RepairKeeps DEF R!Next

-----------------------------------------------------------------------------
(* The caption package, as long as nothing is touched                      *)

\* A package that is hashed with an empty cache holds what its manifest records.
LEMMA HashedIsWhole == ASSUME NEW place, NEW p, R!HashesOk({}, place, p) PROVE R!Changed(p) = {}
<1>1. \A path : R!Observed({}, place, path, p) = p.disk[path].data
  BY DEF R!Observed
<1> QED BY <1>1 DEF R!HashesOk, R!Changed

\* Where the resolution leaves the section of caption: at the one package it found.
LEMMA CaptionIsAt ==
  ASSUME NEW c, Shaped(c), NEW place, place = R!PlaceOf(c, "caption", c.tokenBudget.enabled)
  PROVE  /\ R!Resolved(c)["caption"].resourceManifestRelativePath = place
         /\ R!Resolved(c)["caption"].enabled = c["caption"].enabled
<1>1. R!Resolved(c)["caption"] = R!ResolvedSection(c, "caption") /\ "caption" \in DOMAIN c
      /\ "enabled" \in DOMAIN c["caption"]
  BY ResolvedKeeps DEF Shaped, Names
<1>2. R!ResolvedSection(c, "caption") = R!Freeze(c["caption"], place)
  BY DEF R!ResolvedSection, R!Resolvable, R!IsCustom
<1>3. R!Freeze(c["caption"], place).resourceManifestRelativePath = place
  BY DEF R!Freeze, R!Set
<1>4. R!Freeze(c["caption"], place).enabled = c["caption"].enabled
  BY <1>1 DEF R!Freeze, R!Set
<1> QED BY <1>1, <1>2, <1>3, <1>4

LEMMA WholeStarts == ASSUME R!Init PROVE WholeInv
BY DEF R!Init, WholeInv, After

LEMMA WholePreflight == ASSUME ResourceInv, WholeInv, R!Preflight PROVE WholeInv'
<1> USE DEF ResourceInv, WholeInv
<1>0. /\ stage = "new" /\ loaded = {} /\ queue = {} /\ submits' = submits + 1
      /\ UNCHANGED <<queue, loaded, library>>
  BY DEF R!Preflight, ResourceTypes, Before, R!files
<1>1. CASE ~R!PreflightOk(config)
  <2>1. stage' = "refused"
    BY <1>1 DEF R!Preflight
  <2> QED BY <1>0, <2>1 DEF After
<1>2. CASE R!PreflightOk(config)
  <2> DEFINE place == R!PlaceOf(config, "caption", config.tokenBudget.enabled)
  <2>1. stage' = "ready" /\ config' = R!Frozen(config)
    BY <1>2 DEF R!Preflight
  <2>2. config'["caption"] = R!Resolved(config)["caption"]
    BY <2>1 DEF R!Frozen
  <2>3. /\ config'["caption"].resourceManifestRelativePath = place
        /\ config'["caption"].enabled = config["caption"].enabled
    BY <2>2, CaptionIsAt DEF ResourceTypes
  <2>4. ASSUME submits = 0, config["caption"].enabled PROVE R!Changed(library[place]) = {}
    <3>1. R!SectionResolves(config, "caption", TRUE)
      BY <1>2 DEF R!PreflightOk, R!ResolveOk, R!Resolvable, R!IsCustom
    <3>2. PICK found \in R!Packages(config, "caption", config.tokenBudget.enabled) :
            R!HashesOk({}, found, library[found])
      BY <2>4, <3>1 DEF R!SectionResolves, R!Active
    <3>3. found = place
      BY OnePackage
    <3> QED BY <3>2, <3>3, HashedIsWhole
  <2>5. R!Package("caption")' = library[place]
    BY <1>0, <2>3 DEF R!Package
  <2>6. R!Changed(R!Package("caption"))' = R!Changed(library[place])
    BY <2>5 DEF R!Changed
  <2> QED BY <1>0, <2>1, <2>3, <2>4, <2>6
<1> QED BY <1>1, <1>2

LEMMA WholeConfirm == ASSUME ResourceInv, WholeInv, R!ConfirmResolve PROVE WholeInv'
<1> USE DEF ResourceInv, WholeInv
<1>0. /\ stage = "ready" /\ stage' \in {"confirming", "rejected"} /\ loaded = {} /\ queue = {}
      /\ UNCHANGED <<queue, loaded, library, touched, submits>>
  BY DEF R!ConfirmResolve, ResourceTypes, Before, R!history, R!files, R!counts
<1>1. CASE ~R!ResolveOk(config, FALSE)
  BY <1>0, <1>1 DEF R!ConfirmResolve, After
<1>2. CASE R!ResolveOk(config, FALSE)
  <2> DEFINE place == R!PlaceOf(config, "caption", config.tokenBudget.enabled)
  <2>1. config' = R!Resolved(config)
    BY <1>2 DEF R!ConfirmResolve
  <2>2. /\ config'["caption"].resourceManifestRelativePath = place
        /\ config'["caption"].enabled = config["caption"].enabled
    BY <2>1, CaptionIsAt DEF ResourceTypes
  <2>3. config["caption"].resourceManifestRelativePath = place
    <3>1. R!SectionResolves(config, "caption", FALSE)
      BY <1>2 DEF R!ResolveOk, R!Resolvable, R!IsCustom
    <3>2. PICK found \in R!Packages(config, "caption", config.tokenBudget.enabled) :
            \/ DOMAIN config["caption"] \cap {"resourceManifestRelativePath", "resourceFingerprint"} = {}
            \/ R!Refers(config["caption"], found)
      BY <3>1 DEF R!SectionResolves
    <3>3. "resourceFingerprint" \in DOMAIN config["caption"]
      BY <1>0 DEF AcceptedInv, Kept, R!Sections, R!Resolvable, R!IsCustom
    <3>4. found = place
      BY OnePackage
    <3> QED BY <3>2, <3>3, <3>4 DEF R!Refers
  <2>4. R!Package("caption")' = R!Package("caption")
    BY <1>0, <2>2, <2>3 DEF R!Package
  <2>5. R!Changed(R!Package("caption"))' = R!Changed(R!Package("caption"))
    BY <2>4 DEF R!Changed
  <2> QED BY <1>0, <2>2, <2>5
<1> QED BY <1>1, <1>2

\* The steps that leave the section of caption and the library as they are.
LEMMA WholeKept ==
  ASSUME ResourceInv, WholeInv, UNCHANGED <<library, touched, submits, loaded>>,
         config'["caption"] = config["caption"], "caption" \in queue' => config["caption"].enabled,
         submits = 0 => hashCache' = {}, stage' # "new" => submits > 0,
         stage' \in {"ready", "confirming"} \cup After => stage \in {"ready", "confirming"} \cup After
  PROVE  WholeInv'
<1>1. R!Package("caption")' = R!Package("caption")
  BY DEF R!Package
<1>2. R!Changed(R!Package("caption"))' = R!Changed(R!Package("caption"))
  BY <1>1 DEF R!Changed
<1> QED BY <1>2 DEF WholeInv

LEMMA WholeFreeze == ASSUME ResourceInv, WholeInv, R!ConfirmFreeze PROVE WholeInv'
<1>1. /\ stage = "confirming" /\ stage' \in {"running", "rejected"}
      /\ config' = config \/ config' = [config EXCEPT !["classify"] = R!FrozenClassify]
      /\ queue' = queue \/ queue' = R!EnabledModules(config)
      /\ UNCHANGED <<library, touched, submits, loaded, hashCache>>
  BY DEF R!ConfirmFreeze, R!history, R!files, R!counts, R!caches
<1>2. config'["caption"] = config["caption"]
  BY <1>1 DEF ResourceInv, ResourceTypes, Shaped, Names
<1>3. "caption" \in R!EnabledModules(config) => config["caption"].enabled
  BY DEF R!EnabledModules, R!Enabled, R!SectionOf
<1> QED BY <1>1, <1>2, <1>3, WholeKept DEF WholeInv, After

LEMMA WholeLoad == ASSUME ResourceInv, WholeInv, NEW m \in R!ToSet(R!Modules), R!Load(m) PROVE WholeInv'
<1>1. /\ stage = "running" /\ m \in queue /\ UNCHANGED <<config, library, touched, submits, hashCache>>
      /\ queue' \subseteq queue /\ stage' \in {"running", "reviewing", "failed"}
      /\ \/ loaded' = loaded
         \/ /\ R!WorkerLoads(m) /\ (R!UsesPackage(m) \/ R!CustomRows(m))
            /\ loaded' = loaded \cup {R!Content(m)}
  BY DEF R!Load, R!Running, R!Done, R!Fail, R!files, R!caches, R!counts
<1>2. ASSUME R!WorkerLoads(m), R!UsesPackage(m) \/ R!CustomRows(m), R!Content(m).changed # {}
      PROVE  touched \/ submits > 1
  <2>1. ~R!CustomRows(m)
    BY <1>2 DEF R!Content
  <2>2. m = "caption"
    BY <1>2, <2>1, TakenIsWhole
  <2>3. R!Content(m).changed = R!Changed(R!Package("caption"))
    BY <2>1, <2>2 DEF R!Content, R!SectionOf
  <2> QED BY <1>1, <1>2, <2>2, <2>3 DEF WholeInv, After
<1>3. R!Package("caption")' = R!Package("caption")
  BY <1>1 DEF R!Package
<1>4. R!Changed(R!Package("caption"))' = R!Changed(R!Package("caption"))
  BY <1>3 DEF R!Changed
<1> QED BY <1>1, <1>2, <1>4 DEF WholeInv, After

LEMMA WholeNext == ASSUME ResourceInv, WholeInv, R!Next PROVE WholeInv'
<1> USE DEF R!history, R!files, R!counts, R!caches
<1>1. ASSUME NEW m \in R!ToSet(R!Modules), R!Select(m) \/ R!RunnerCheck(m) \/ R!NoWork(m) \/ R!WorkerLost(m)
      PROVE  WholeInv'
  <2>1. /\ stage = "running" /\ stage' \in After /\ queue' \subseteq queue
        /\ UNCHANGED <<config, library, touched, submits, loaded>>
    BY <1>1 DEF R!Select, R!RunnerCheck, R!NoWork, R!WorkerLost, R!Running, R!Done, R!Fail, After
  <2> QED BY <2>1, WholeKept DEF WholeInv, After
<1>2. CASE R!Restart
  <2>1. UNCHANGED <<config, library, touched, submits, loaded, stage, queue>> /\ hashCache' = {}
    BY <1>2 DEF R!Restart
  <2> QED BY <2>1, <1>2, WholeKept DEF WholeInv, R!Restart
<1>3. CASE R!Change
  <2>1. touched' /\ UNCHANGED <<config, submits, loaded, stage, queue, hashCache>>
    BY <1>3 DEF R!Change
  <2> QED BY <2>1 DEF WholeInv
<1>4. CASE R!Repair
  <2>1. /\ stage \in After /\ stage' = "running" /\ queue' = R!EnabledModules(config)
        /\ UNCHANGED <<config, library, touched, submits, loaded, hashCache>>
    BY <1>4 DEF R!Repair, After
  <2>2. "caption" \in R!EnabledModules(config) => config["caption"].enabled
    BY DEF R!EnabledModules, R!Enabled, R!SectionOf
  <2> QED BY <2>1, <2>2, WholeKept DEF WholeInv, After
<1>5. CASE R!SubmitAgain
  <2>1. /\ stage = "ready" /\ stage' = "new" /\ loaded = {} /\ queue = {}
        /\ UNCHANGED <<loaded, queue, submits, hashCache>>
    BY <1>5 DEF R!SubmitAgain, ResourceInv, ResourceTypes, Before
  <2> QED BY <2>1 DEF WholeInv, After
<1> QED BY <1>1, <1>2, <1>3, <1>4, <1>5, WholePreflight, WholeConfirm, WholeFreeze, WholeLoad DEF R!Next

-----------------------------------------------------------------------------
(* A behaviour is the exchange's or the resources'.                        *)

ProgramInv ==
  \/ stage = "off" /\ loaded = {} /\ ExchangeInv
  \/ phase = "off" /\ ResourceInv /\ WholeInv

LEMMA ProgramInvariant == MCSpec => []ProgramInv
<1>1. MCInit => ProgramInv
  <2>1. Init /\ NoResources => ProgramInv
    BY ExchangeStarts DEF ProgramInv, NoResources
  <2>2. R!Init /\ NoExchange => ProgramInv
    BY ResourcesStart, WholeStarts DEF ProgramInv, NoExchange
  <2> QED BY <2>1, <2>2 DEF MCInit
<1>2. (ExchangeInv => phase # "off") /\ (ResourceInv => stage # "off")
  BY DEF ExchangeInv, ExchangeTypes, ResourceInv, ResourceTypes, Before, After
<1>3. ProgramInv /\ [MCNext]_<<vars, resourceVars>> => ProgramInv'
  <2> SUFFICES ASSUME ProgramInv, [MCNext]_<<vars, resourceVars>> PROVE ProgramInv'
    OBVIOUS
  <2>1. CASE stage = "off" /\ Next /\ UNCHANGED resourceVars
    BY <1>2, <2>1, ExchangeNext DEF ProgramInv, resourceVars
  <2>2. CASE phase = "off" /\ R!Next /\ UNCHANGED vars
    BY <1>2, <2>2, ResourcesNext, WholeNext DEF ProgramInv, vars, files
  <2>3. CASE UNCHANGED <<vars, resourceVars>>
    <3>1. ExchangeInv => ExchangeInv'
      <4>1. ASSUME ExchangeTypes PROVE ExchangeTypes'
        BY <2>3, <4>1, SamplesKept DEF ExchangeTypes, vars, files
      <4>2. ASSUME NEW o, IsOwn(o) PROVE IsOwn(o)'
        BY <2>3, <4>2, SamplesKept, OwnKept DEF IsOwn, vars, files
      <4> QED BY <2>3, <4>1, <4>2 DEF ExchangeInv, AnswerInv, vars, files
    <3>2. ResourceInv => ResourceInv'
      BY <2>3, OthersKeep DEF resourceVars
    <3>3. WholeInv => WholeInv'
      BY <2>3 DEF WholeInv, resourceVars, R!Changed, R!Package, R!IsCustom
    <3> QED BY <2>3, <3>1, <3>2, <3>3 DEF ProgramInv, vars, resourceVars
  <2> QED BY <2>1, <2>2, <2>3 DEF MCNext
<1> QED BY <1>1, <1>3, PTL DEF MCSpec

\* For every job, answer, lost worker and failed write: a sample is settled with an outcome
\* that its worker may have for this sample (the runners' response checks).
THEOREM AnswerIsOwn == MCSpec => OwnAnswer
<1> DEFINE OwnSettled ==
      \A s \in Samples : (phase = "settle" /\ at[s] = "leased" /\ at'[s] \in {"settled", "out"})
        => \E o \in Outcomes(s) \cup {x \in {Issue("caption_result_too_large", "")} : module = "caption"} :
             LeftWith(s, o)
<1>1. ProgramInv /\ [MCNext]_<<vars, resourceVars>> => [OwnSettled]_vars
  <2>1. [MCNext]_<<vars, resourceVars>> => MCNext \/ UNCHANGED vars
    BY DEF vars
  <2>2. ProgramInv /\ MCNext => (ExchangeInv /\ Next) \/ UNCHANGED vars \/ phase # "settle"
    BY DEF ProgramInv, MCNext
  <2>3. ExchangeInv /\ Next => OwnSettled
    BY StepOwn DEF OwnOutcomes
  <2>4. phase # "settle" => OwnSettled
    OBVIOUS
  <2> HIDE DEF OwnSettled
  <2> QED BY <2>1, <2>2, <2>3, <2>4
<1>2. OwnAnswer <=> [][OwnSettled]_vars
  BY DEF OwnAnswer
<1> HIDE DEF OwnSettled
<1> QED BY <1>1, <1>2, ProgramInvariant, PTL DEF MCSpec

\* For every library, configuration and custom file, and however often and whenever they
\* change: a worker works with the resource the preflight showed, and every file holds what
\* the manifest records, except the unhashed weights of the caption model, once something was
\* touched or submitted again (pipeline._resolve_resources, the workers' resource modules).
THEOREM WorkersLoadTheFrozen == MCSpec => []LoadedIsFrozen
<1>1. ProgramInv => LoadedIsFrozen
  BY DEF ProgramInv, ResourceInv, LoadedInv, WholeInv, LoadedIsFrozen, R!LoadedIsFrozen
<1> QED BY <1>1, ProgramInvariant, PTL
=============================================================================
