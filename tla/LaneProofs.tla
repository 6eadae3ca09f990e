----------------------------- MODULE LaneProofs -----------------------------
(***************************************************************************)
(* What a phase leaves behind, for any number of invocations, any files    *)
(* and any proposals.                                                      *)
(*                                                                         *)
(* The lanes of a run share everything but their locals.  A call that met  *)
(* no other lane is therefore alone: while its lane lives nobody else's    *)
(* does, and what it attested is a workspace that no later call starts to  *)
(* work on (Apart).  So its locals mean what they meant when it took them  *)
(* (Mine), whatever fails.                                                 *)
(***************************************************************************)
EXTENDS Lane, FiniteSetTheorems, TLAPS

HostLabels == {"new", "launch", "turn", "settle", "closing", "check", "store",
               "over", "dead"}
LaneLabels == {"none", "turn", "ready", "commit", "attest", "failing", "idle", "gone"}
Receipts == [lane : Calls, outcome : {"completed", "failed"}]
Evidence == {None, Partial} \union [by : Calls, candidates : Proposals]
Staged == [Files -> Contents \union {None}]
Locals == [pc : HostLabels, lane : LaneLabels, before : SUBSET Receipts,
           reserved : SUBSET Files, wanted : Proposals \union {None, Prose},
           sent : BOOLEAN, moved : SUBSET Files, said : BOOLEAN \union {None},
           good : BOOLEAN, closed : BOOLEAN,
           past : {"clean", "faulty", "met"}, cut : BOOLEAN]

Live(r) == r.lane \notin {"none", "gone"}
Running(r) == r.pc \in {"launch", "turn", "settle", "closing", "check", "store"}
Ran(r) == r.pc = "launch" \/ r.lane # "none"
Over(r) == r.pc \in {"over", "dead"}
Met(r) == r.past = "met"
Won(c, rcp) == Receipt(c, "completed") \in rcp
Nothing(c, rcp) == \A x \in rcp : x.lane # c
By(c, ev) == ev \notin {None, Partial} /\ ev.by = c

Types ==
    /\ staging \in Staged /\ work \in Staged /\ wrapped \in BOOLEAN
    /\ receipts \in SUBSET Receipts /\ evidence \in Evidence
    /\ call \in [Calls -> Locals]

\* What the locals of one call have to do with each other.
Coherent(r) ==
    /\ r.pc \in {"new", "launch"} => r.lane = "none"
    /\ r.lane = "none" => r.pc \in {"new", "launch", "over", "dead"}
    /\ r.lane \in {"none", "turn"} => r.wanted = None /\ ~r.sent
    /\ r.lane \in {"none", "turn", "ready"} => r.moved = {}
    /\ r.lane \notin {"idle", "gone"} => r.said = None
    /\ \/ r.lane \in {"commit", "attest", "failing", "idle"} \/ r.moved # {}
       \/ r.sent \/ r.good \/ r.pc \in {"settle", "check", "store"}
       => r.wanted \in Proposals
    /\ r.moved # {} => r.moved \subseteq DOMAIN r.wanted
    /\ r.lane \in {"commit", "attest"} \/ (Live(r) /\ r.moved # {}) =>
          r.reserved = DOMAIN r.wanted
    /\ r.lane = "attest" => r.moved = DOMAIN r.wanted
    /\ r.lane = "none" => ~r.closed
    /\ Live(r) /\ ~r.cut => ~r.closed /\ r.pc \notin {"check", "store", "over"}
    /\ r.past = "clean" /\ (r.lane \in {"commit", "attest"} \/ (r.lane = "ready" /\ r.sent)) =>
          r.pc = "settle"

\* What the receipts and the evidence have to do with a call, whoever it met.
Recorded(c, r, rcp, ev) ==
    /\ Running(r) => ev = None
    /\ r.before \subseteq rcp /\ Nothing(c, r.before)
    /\ r.lane \in {"none", "turn", "ready", "commit", "attest"} => Nothing(c, rcp)
    /\ Won(c, rcp) => r.wanted \in Proposals /\ r.moved = DOMAIN r.wanted

\* A clean settlement that began to move files went through, or is about to.
Promoting(c, r, rcp, ev) ==
    /\ Receipt(c, "failed") \notin rcp
    /\ \/ r.lane \in {"commit", "attest"}
       \/ /\ Won(c, rcp) /\ r.lane \in {"idle", "gone"}
          /\ \/ r.pc = "settle" /\ r.said = TRUE
             \/ r.pc = "closing" /\ r.good
             \/ r.pc \in {"check", "store"}
             \/ r.pc = "over" /\ (By(c, ev) \/ Oversized(r.wanted))

\* What a call that met nobody knows of the shared files.
Mine(c, r, stg, wrk, rcp, ev) ==
    /\ r.lane = "commit" => \A f \in DOMAIN r.wanted \ r.moved : stg[f] = r.wanted[f]
    /\ r.lane \in {"commit", "attest"} \/ Won(c, rcp) =>
          \A f \in r.moved : wrk[f] = r.wanted[f]
    /\ Running(r) \/ Live(r) \/ By(c, ev) => \A f \in Files \ r.moved : wrk[f] = None
    /\ By(c, ev) => ev.candidates = r.wanted /\ Won(c, rcp)
    /\ r.pc \in {"turn", "settle", "closing", "check", "store"} =>
          \A x \in rcp \ r.before : x.lane = c
    /\ r.pc = "store" => Won(c, rcp)
    /\ r.past = "clean" /\ r.moved # {} => Promoting(c, r, rcp, ev)

\* What two calls have to do with each other.
Apart(c, d) ==
    /\ call[d].pc # "new" => Over(call[c])
    /\ Ran(call[d]) /\ Live(call[c]) => Met(call[c]) /\ Met(call[d])
    /\ Won(c, receipts) /\ ~Met(call[c]) => ~Ran(call[d])

Inv ==
    /\ Types
    /\ \A c \in Calls :
          /\ Coherent(call[c])
          /\ Recorded(c, call[c], receipts, evidence)
          /\ ~Met(call[c]) => Mine(c, call[c], staging, work, receipts, evidence)
    /\ \A c, d \in Calls : c < d => Apart(c, d)

-----------------------------------------------------------------------------
(* One call takes a step: the others, and the relation between them.       *)

LEMMA Order == \A c, d \in Calls : c \in Nat /\ (c = d \/ c < d \/ d < c)
  BY LaneAssumption DEF LaneAssumption, Calls

\* While the lane of c lives, a call that met nobody is over or has not begun.
LEMMA Alone ==
    ASSUME Inv, NEW c \in Calls, NEW d \in Calls \ {c}, Live(call[c]), ~Met(call[d])
    PROVE  /\ ~Live(call[d]) /\ ~Running(call[d])
           /\ ~Won(d, receipts) /\ ~By(d, evidence)
<1>1. Coherent(call[c]) /\ Coherent(call[d]) /\ Recorded(d, call[d], receipts, evidence)
  BY DEF Inv
<1>2. Mine(d, call[d], staging, work, receipts, evidence)
  BY DEF Inv
<1>3. Ran(call[c]) /\ call[c].pc # "new"
  BY <1>1 DEF Live, Ran, Coherent
<1>4. Won(d, receipts) => Ran(call[d])
  BY <1>1 DEF Recorded, Nothing, Won, Receipt, Ran
<1>5. ~Live(call[d]) /\ ~Running(call[d]) /\ ~Won(d, receipts)
  <2>1. CASE c < d
    <3>1. Apart(c, d)
      BY <2>1 DEF Inv
    <3>2. ~Ran(call[d])
      BY <3>1 DEF Apart
    <3> QED
      BY <1>1, <1>4, <3>2 DEF Ran, Live, Running, Coherent
  <2>2. CASE d < c
    <3>1. Apart(d, c)
      BY <2>2 DEF Inv
    <3> QED
      BY <1>3, <3>1 DEF Apart, Over, Running
  <2> QED
    BY <2>1, <2>2, Order
<1> QED
  BY <1>2, <1>5 DEF Mine

\* Only one invocation runs at a time.
LEMMA OneHost ==
    ASSUME Inv, NEW c \in Calls, NEW d \in Calls \ {c}, Running(call[c])
    PROVE  ~Running(call[d])
<1>1. c < d \/ d < c
  BY Order
<1>2. c < d => Apart(c, d)
  BY DEF Inv
<1>3. d < c => Apart(d, c)
  BY DEF Inv
<1> QED
  BY <1>1, <1>2, <1>3 DEF Apart, Running, Over

StepOf(c, r) ==
    /\ call' = [call EXCEPT ![c] = r]
    /\ call[c].pc = "new" => \A d \in Calls : d < c => Over(call[d])
    /\ Over(call[c]) => Over(r)
    /\ Live(r) => Live(call[c]) \/ call[c].pc = "launch"
    /\ Ran(r) => Ran(call[c])
    /\ Met(r) <=> Met(call[c])
    /\ ~Live(call[c]) => staging' = staging /\ work' = work /\ receipts' = receipts
    /\ receipts \subseteq receipts'
    /\ \A x \in receipts' \ receipts : x.lane = c
    /\ \/ evidence' = evidence
       \/ Running(call[c]) /\ \A d \in Calls \ {c} : ~By(d, evidence')

\* The records and the knowledge of the other calls stay true.
LEMMA OthersStay ==
    ASSUME Inv, NEW c \in Calls, NEW r, StepOf(c, r), NEW d \in Calls \ {c}
    PROVE  /\ Recorded(d, call[d], receipts', evidence')
           /\ ~Met(call[d]) => Mine(d, call[d], staging', work', receipts', evidence')
<1>1. Recorded(d, call[d], receipts, evidence)
  BY DEF Inv
<1>2. /\ Nothing(d, receipts) => Nothing(d, receipts')
      /\ Won(d, receipts') <=> Won(d, receipts)
      /\ Receipt(d, "failed") \in receipts' => Receipt(d, "failed") \in receipts
  BY DEF StepOf, Nothing, Won, Receipt
<1>3. Running(call[d]) => evidence' = evidence
  BY OneHost DEF StepOf
<1>4. By(d, evidence') => By(d, evidence) /\ evidence' = evidence
  BY DEF StepOf
<1>5. By(d, evidence) => By(d, evidence')
  <2>1. ASSUME Running(call[c]) PROVE ~By(d, evidence)
    BY <2>1 DEF Inv, Recorded, By
  <2> QED
    BY <2>1 DEF StepOf
<1>6. Recorded(d, call[d], receipts', evidence')
  <2>1. receipts \subseteq receipts'
    BY DEF StepOf
  <2> QED
    BY <1>1, <1>2, <1>3, <2>1 DEF Recorded
<1>7. ASSUME ~Met(call[d])
      PROVE  Mine(d, call[d], staging', work', receipts', evidence')
  <2>1. Mine(d, call[d], staging, work, receipts, evidence)
    BY <1>7 DEF Inv
  <2>2. CASE Live(call[c])
    <3>1. ~Live(call[d]) /\ ~Running(call[d]) /\ ~Won(d, receipts) /\ ~By(d, evidence)
      BY <1>7, <2>2, Alone
    <3>2. ~Won(d, receipts') /\ ~By(d, evidence')
      BY <1>2, <1>4, <3>1
    <3>3. call[d].lane \notin {"commit", "attest"}
      BY <3>1 DEF Live
    <3>4. call[d].pc \notin {"turn", "settle", "closing", "check", "store"}
      BY <3>1 DEF Running
    <3>5. ~(call[d].past = "clean" /\ call[d].moved # {})
      BY <2>1, <3>1, <3>3 DEF Mine, Promoting
    <3> QED
      BY <3>1, <3>2, <3>3, <3>4, <3>5 DEF Mine
  <2>3. CASE ~Live(call[c])
    <3>1. staging' = staging /\ work' = work /\ receipts' = receipts
      BY <2>3 DEF StepOf
    <3> QED
      BY <2>1, <3>1, <1>4, <1>5 DEF Mine, Promoting
  <2> QED
    BY <2>2, <2>3
<1> QED
  BY <1>6, <1>7

LEMMA ApartStays ==
    ASSUME Inv, NEW c \in Calls, NEW r \in Locals, StepOf(c, r),
           NEW d \in Calls, NEW e \in Calls, d < e
    PROVE  Apart(d, e)'
<1>1. Apart(d, e) /\ d # e
  BY Order DEF Inv
<1>2. call' = [call EXCEPT ![c] = r] /\ call \in [Calls -> Locals]
  BY DEF StepOf, Inv, Types
<1>3. CASE d # c /\ e # c
  <2>1. call'[d] = call[d] /\ call'[e] = call[e]
    BY <1>2, <1>3
  <2>2. Won(d, receipts') => Won(d, receipts)
    BY <1>3 DEF StepOf, Won, Receipt
  <2> QED
    BY <1>1, <2>1, <2>2 DEF Apart
<1>4. CASE d = c
  <2>1. call'[c] = r /\ call'[e] = call[e]
    BY <1>1, <1>2, <1>4
  <2>2. call[e].pc # "new" => Over(r)
    BY <1>1, <1>4 DEF Apart, StepOf
  <2>3. ASSUME Ran(call[e]), Live(r) PROVE Met(r) /\ Met(call[e])
    <3>1. call[e].pc # "new"
      BY <2>3 DEF Inv, Coherent, Ran
    <3>2. Live(call[c])
      BY <1>1, <1>4, <2>3, <3>1 DEF Apart, StepOf, Over
    <3> QED
      BY <1>1, <1>4, <2>3, <3>2 DEF Apart, StepOf
  <2>4. ASSUME Won(c, receipts'), ~Met(r), Ran(call[e]) PROVE FALSE
    <3>1. ~Met(call[c])
      BY <2>4 DEF StepOf
    <3>2. ~Live(call[c])
      BY <1>1, <1>4, <2>4, <3>1 DEF Apart
    <3>3. Won(c, receipts)
      BY <2>4, <3>2 DEF StepOf
    <3> QED
      BY <1>1, <1>4, <2>4, <3>1, <3>3 DEF Apart
  <2> QED
    BY <1>4, <2>1, <2>2, <2>3, <2>4 DEF Apart
<1>5. CASE e = c
  <2>1. call'[c] = r /\ call'[d] = call[d]
    BY <1>1, <1>2, <1>5
  <2>2. Over(call[d])
    BY <1>1, <1>5 DEF Apart, StepOf
  <2>3. Won(d, receipts') => Won(d, receipts)
    BY <1>1, <1>5 DEF StepOf, Won, Receipt
  <2> QED
    BY <1>1, <1>5, <2>1, <2>2, <2>3 DEF Apart, StepOf
<1> QED
  BY <1>3, <1>4, <1>5

LEMMA OwnStep ==
    ASSUME Inv, NEW c \in Calls, NEW r \in Locals, StepOf(c, r),
           staging' \in Staged, work' \in Staged, wrapped' \in BOOLEAN,
           receipts' \in SUBSET Receipts, evidence' \in Evidence,
           Coherent(r), Recorded(c, r, receipts', evidence'),
           ~Met(r) => Mine(c, r, staging', work', receipts', evidence')
    PROVE  Inv'
<1>1. call' = [call EXCEPT ![c] = r] /\ call \in [Calls -> Locals]
  BY DEF StepOf, Inv, Types
<1>2. Types'
  BY <1>1 DEF Types
<1>3. ASSUME NEW d \in Calls
      PROVE  /\ Coherent(call'[d])
             /\ Recorded(d, call'[d], receipts', evidence')
             /\ ~Met(call'[d]) => Mine(d, call'[d], staging', work', receipts', evidence')
  <2>1. CASE d = c
    BY <1>1, <2>1
  <2>2. CASE d # c
    <3>1. call'[d] = call[d]
      BY <1>1, <2>2
    <3>2. Coherent(call[d])
      BY DEF Inv
    <3> QED
      BY <2>2, <3>1, <3>2, OthersStay
  <2> QED
    BY <2>1, <2>2
<1>4. \A d, e \in Calls : d < e => Apart(d, e)'
  BY ApartStays
<1> QED
  BY <1>2, <1>3, <1>4 DEF Inv

-----------------------------------------------------------------------------
(* Steps that leave the files alone.                                       *)

LEMMA Knows ==
    ASSUME Inv, NEW c \in Calls
    PROVE  /\ call[c] \in Locals /\ Coherent(call[c])
           /\ Recorded(c, call[c], receipts, evidence)
           /\ ~Met(call[c]) => Mine(c, call[c], staging, work, receipts, evidence)
  BY DEF Inv, Types

LEMMA LocalStep ==
    ASSUME Inv, NEW c \in Calls, NEW r \in Locals,
           call' = [call EXCEPT ![c] = r], UNCHANGED files,
           call[c].pc # "new",
           Over(call[c]) => Over(r),
           Live(r) => Live(call[c]) \/ call[c].pc = "launch",
           Ran(r) => Ran(call[c]), Met(r) <=> Met(call[c]),
           Coherent(r), Recorded(c, r, receipts, evidence),
           ~Met(r) => Mine(c, r, staging, work, receipts, evidence)
    PROVE  Inv'
<1>1. /\ staging' = staging /\ work' = work /\ wrapped' = wrapped
      /\ receipts' = receipts /\ evidence' = evidence
  BY DEF files
<1>2. StepOf(c, r)
  BY <1>1 DEF StepOf
<1> QED
  BY <1>1, <1>2, OwnStep DEF Inv, Types

LEMMA LaunchStep == ASSUME Inv, NEW c \in Calls, Launch(c) PROVE Inv'
<1> DEFINE r == [call[c] EXCEPT !.pc = "turn", !.lane = "turn", !.before = receipts]
<1>1. /\ call[c] \in Locals /\ Coherent(call[c])
      /\ Recorded(c, call[c], receipts, evidence)
      /\ ~Met(call[c]) => Mine(c, call[c], staging, work, receipts, evidence)
  BY Knows
<1>2. call[c].pc = "launch" /\ call' = [call EXCEPT ![c] = r] /\ UNCHANGED files
  BY DEF Launch, Set
<1>3. receipts \in SUBSET Receipts
  BY DEF Inv, Types
<1>4. r \in Locals
  BY <1>1, <1>3 DEF Locals, HostLabels, LaneLabels
<1>5. Coherent(r)
  BY <1>1, <1>2 DEF Coherent, Locals, Live
<1>6. Recorded(c, r, receipts, evidence)
  BY <1>1, <1>2 DEF Recorded, Coherent, Locals, Running, Won, Nothing, Receipt
<1>7. ~Met(r) => Mine(c, r, staging, work, receipts, evidence)
  BY <1>1, <1>2 DEF Mine, Coherent, Locals, Running, Live, Met, Promoting
<1>8. /\ Ran(r) => Ran(call[c])
      /\ Met(r) <=> Met(call[c])
      /\ Over(call[c]) => Over(r)
  BY <1>1, <1>2 DEF Ran, Met, Over, Locals
<1> HIDE DEF r
<1> QED
  BY <1>2, <1>4, <1>5, <1>6, <1>7, <1>8, LocalStep

LEMMA GiveUpStep == ASSUME Inv, NEW c \in Calls, GiveUp(c) PROVE Inv'
<1> DEFINE r == Fault(Closing(call[c]))
<1>1. /\ call[c] \in Locals /\ Coherent(call[c])
      /\ Recorded(c, call[c], receipts, evidence)
      /\ ~Met(call[c]) => Mine(c, call[c], staging, work, receipts, evidence)
  BY Knows
<1>2. /\ call[c].pc \in {"turn", "settle"}
      /\ call' = [call EXCEPT ![c] = r] /\ UNCHANGED files
  BY DEF GiveUp, Set
<1>4. r \in Locals
  BY <1>1, ZenonT(60) DEF Locals, HostLabels, LaneLabels, Fault, Closing
<1>5. Coherent(r)
  BY <1>1, <1>2 DEF Coherent, Locals, Live, Fault, Closing
<1>6. Recorded(c, r, receipts, evidence)
  BY <1>1, <1>2
  DEF Recorded, Coherent, Locals, Running, Won, Nothing, Receipt, Fault,
      Closing
<1>7. ~Met(r) => Mine(c, r, staging, work, receipts, evidence)
  BY <1>1, <1>2
  DEF Mine, Coherent, Locals, Running, Live, Met, Promoting, Fault, Closing
<1>8. /\ Live(r) => Live(call[c])
      /\ Ran(r) => Ran(call[c])
      /\ Met(r) <=> Met(call[c])
      /\ Over(call[c]) => Over(r)
  BY <1>1, <1>2 DEF Ran, Met, Over, Locals, Live, Fault, Closing
<1> HIDE DEF r
<1> QED
  BY <1>2, <1>4, <1>5, <1>6, <1>7, <1>8, LocalStep
LEMMA SendSettleStep == ASSUME Inv, NEW c \in Calls, SendSettle(c) PROVE Inv'
<1> DEFINE r == IF call[c].wanted \in Proposals
                  THEN [call[c] EXCEPT !.pc = "settle", !.sent = TRUE]
                  ELSE Closing(call[c])
<1>1. /\ call[c] \in Locals /\ Coherent(call[c])
      /\ Recorded(c, call[c], receipts, evidence)
      /\ ~Met(call[c]) => Mine(c, call[c], staging, work, receipts, evidence)
  BY Knows
<1>2. /\ call[c].pc = "turn" /\ call[c].wanted # None
      /\ call' = [call EXCEPT ![c] = r] /\ UNCHANGED files
  BY DEF SendSettle, Set
<1>3. r \in Locals
  BY <1>1, <1>2 DEF Locals, HostLabels, LaneLabels, Closing
<1>4. Coherent(r)
  BY <1>1, <1>2 DEF Coherent, Locals, Live, Closing
<1>5. Recorded(c, r, receipts, evidence)
  BY <1>1, <1>2
  DEF Recorded, Coherent, Locals, Running, Won, Nothing, Receipt, Closing
<1>6. ~Met(r) => Mine(c, r, staging, work, receipts, evidence)
  BY <1>1, <1>2
  DEF Mine, Coherent, Locals, Running, Live, Met, Promoting, Closing
<1>7. /\ Live(r) => Live(call[c])
      /\ Ran(r) => Ran(call[c])
      /\ Met(r) <=> Met(call[c])
      /\ Over(call[c]) => Over(r)
      /\ call[c].pc # "new"
  BY <1>1, <1>2 DEF Ran, Met, Over, Locals, Live, Coherent, Closing
<1> HIDE DEF r
<1> QED
  BY <1>2, <1>3, <1>4, <1>5, <1>6, <1>7, LocalStep

LEMMA CloseStreamAndStop ==
    ASSUME Inv, NEW c \in Calls, call[c].pc \in {"turn", "settle"}, UNCHANGED files,
           Set(c, Closing(Fault([call[c] EXCEPT !.closed = TRUE, !.cut = Alive(c)])))
    PROVE  Inv'
<1> DEFINE r == Closing(Fault([call[c] EXCEPT !.closed = TRUE, !.cut = Alive(c)]))
<1>1. /\ call[c] \in Locals /\ Coherent(call[c])
      /\ Recorded(c, call[c], receipts, evidence)
      /\ ~Met(call[c]) => Mine(c, call[c], staging, work, receipts, evidence)
  BY Knows
<1>2. /\ call[c].pc \in {"turn", "settle"}
      /\ call' = [call EXCEPT ![c] = r] /\ UNCHANGED files
  BY DEF Set
<1>3. r \in Locals
  BY <1>1, <1>2, ZenonT(60) DEF Locals, HostLabels, LaneLabels, Closing, Fault, Alive
<1>4. Coherent(r)
  BY <1>1, <1>2, ZenonT(60) DEF Coherent, Locals, Live, Closing, Fault, Alive
<1>5. Recorded(c, r, receipts, evidence)
  BY <1>1, <1>2
  DEF Recorded, Coherent, Locals, Running, Won, Nothing, Receipt, Closing,
      Fault, Alive
<1>6. ~Met(r) => Mine(c, r, staging, work, receipts, evidence)
  BY <1>1, <1>2
  DEF Mine, Coherent, Locals, Running, Live, Met, Promoting, Closing, Fault,
      Alive
<1>7. /\ Live(r) => Live(call[c])
      /\ Ran(r) => Ran(call[c])
      /\ Met(r) <=> Met(call[c])
      /\ Over(call[c]) => Over(r)
      /\ call[c].pc # "new"
  BY <1>1, <1>2
  DEF Ran, Met, Over, Locals, Live, Coherent, Closing, Fault, Alive
<1> HIDE DEF r
<1> QED
  BY <1>2, <1>3, <1>4, <1>5, <1>6, <1>7, LocalStep

LEMMA CloseStreamAndRead ==
    ASSUME Inv, NEW c \in Calls, call[c].pc = "turn", UNCHANGED files,
           Set(c, Fault([call[c] EXCEPT !.closed = TRUE, !.cut = Alive(c)]))
    PROVE  Inv'
<1> DEFINE r == Fault([call[c] EXCEPT !.closed = TRUE, !.cut = Alive(c)])
<1>1. /\ call[c] \in Locals /\ Coherent(call[c])
      /\ Recorded(c, call[c], receipts, evidence)
      /\ ~Met(call[c]) => Mine(c, call[c], staging, work, receipts, evidence)
  BY Knows
<1>2. /\ call[c].pc = "turn"
      /\ call' = [call EXCEPT ![c] = r] /\ UNCHANGED files
  BY DEF Set
<1>3. r \in Locals
  BY <1>1, <1>2, ZenonT(60) DEF Locals, HostLabels, LaneLabels, Fault, Alive
<1>4. Coherent(r)
  BY <1>1, <1>2, ZenonT(60) DEF Coherent, Locals, Live, Fault, Alive
<1>5. Recorded(c, r, receipts, evidence)
  BY <1>1, <1>2
  DEF Recorded, Coherent, Locals, Running, Won, Nothing, Receipt, Fault,
      Alive
<1>6. ~Met(r) => Mine(c, r, staging, work, receipts, evidence)
  BY <1>1, <1>2
  DEF Mine, Coherent, Locals, Running, Live, Met, Promoting, Fault, Alive
<1>7. /\ Live(r) => Live(call[c])
      /\ Ran(r) => Ran(call[c])
      /\ Met(r) <=> Met(call[c])
      /\ Over(call[c]) => Over(r)
      /\ call[c].pc # "new"
  BY <1>1, <1>2 DEF Ran, Met, Over, Locals, Live, Coherent, Fault, Alive
<1> HIDE DEF r
<1> QED
  BY <1>2, <1>3, <1>4, <1>5, <1>6, <1>7, LocalStep

LEMMA CloseStreamStep == ASSUME Inv, NEW c \in Calls, CloseStream(c) PROVE Inv'
  BY CloseStreamAndStop, CloseStreamAndRead DEF CloseStream

LEMMA SettleStep == ASSUME Inv, NEW c \in Calls, Settle(c) PROVE Inv'
<1> DEFINE r == [call[c] EXCEPT !.lane = IF Settleable(c) THEN "commit" ELSE "failing"]
<1>1. /\ call[c] \in Locals /\ Coherent(call[c])
      /\ Recorded(c, call[c], receipts, evidence)
      /\ ~Met(call[c]) => Mine(c, call[c], staging, work, receipts, evidence)
  BY Knows
<1>2. /\ call[c].lane = "ready" /\ call[c].sent
      /\ call' = [call EXCEPT ![c] = r] /\ UNCHANGED files
  BY DEF Settle, Set
<1>3. r \in Locals
  BY <1>1, <1>2 DEF Locals, HostLabels, LaneLabels, Settleable
<1>4. Coherent(r)
  BY <1>1, <1>2 DEF Coherent, Locals, Live, Settleable
<1>5. Recorded(c, r, receipts, evidence)
  BY <1>1, <1>2
  DEF Recorded, Coherent, Locals, Running, Won, Nothing, Receipt, Settleable
<1>6. ~Met(r) => Mine(c, r, staging, work, receipts, evidence)
  BY <1>1, <1>2
  DEF Mine, Coherent, Locals, Running, Live, Met, Promoting, Settleable
<1>7. /\ Live(r) => Live(call[c])
      /\ Ran(r) => Ran(call[c])
      /\ Met(r) <=> Met(call[c])
      /\ Over(call[c]) => Over(r)
      /\ call[c].pc # "new"
  BY <1>1, <1>2 DEF Ran, Met, Over, Locals, Live, Coherent, Settleable
<1> HIDE DEF r
<1> QED
  BY <1>2, <1>3, <1>4, <1>5, <1>6, <1>7, LocalStep

LEMMA ExitStep == ASSUME Inv, NEW c \in Calls, Exit(c) PROVE Inv'
<1> DEFINE r == LaneEnd(call[c])
<1>1. /\ call[c] \in Locals /\ Coherent(call[c])
      /\ Recorded(c, call[c], receipts, evidence)
      /\ ~Met(call[c]) => Mine(c, call[c], staging, work, receipts, evidence)
  BY Knows
<1>2. /\ call[c].pc \in {"closing", "check", "store", "over", "dead"}
      /\ call[c].lane \in {"turn", "ready", "idle"}
      /\ call' = [call EXCEPT ![c] = r] /\ UNCHANGED files
  BY DEF Exit, Set
<1>3. r \in Locals
  BY <1>1, <1>2 DEF Locals, HostLabels, LaneLabels, LaneEnd
<1>4. Coherent(r)
  BY <1>1, <1>2 DEF Coherent, Locals, Live, LaneEnd
<1>5. Recorded(c, r, receipts, evidence)
  BY <1>1, <1>2
  DEF Recorded, Coherent, Locals, Running, Won, Nothing, Receipt, LaneEnd
<1>6. ~Met(r) => Mine(c, r, staging, work, receipts, evidence)
  BY <1>1, <1>2
  DEF Mine, Coherent, Locals, Running, Live, Met, Promoting, LaneEnd
<1>7. /\ Live(r) => Live(call[c])
      /\ Ran(r) => Ran(call[c])
      /\ Met(r) <=> Met(call[c])
      /\ Over(call[c]) => Over(r)
      /\ call[c].pc # "new"
  BY <1>1, <1>2 DEF Ran, Met, Over, Locals, Live, Coherent, LaneEnd
<1> HIDE DEF r
<1> QED
  BY <1>2, <1>3, <1>4, <1>5, <1>6, <1>7, LocalStep

LEMMA KillStep == ASSUME Inv, NEW c \in Calls, Kill(c) PROVE Inv'
<1> DEFINE r == Fault(LaneEnd(call[c]))
<1>1. /\ call[c] \in Locals /\ Coherent(call[c])
      /\ Recorded(c, call[c], receipts, evidence)
      /\ ~Met(call[c]) => Mine(c, call[c], staging, work, receipts, evidence)
  BY Knows
<1>2. /\ Live(call[c])
      /\ call' = [call EXCEPT ![c] = r] /\ UNCHANGED files
  BY DEF Kill, Alive, Live, Set
<1>3. r \in Locals
  BY <1>1, <1>2, ZenonT(60) DEF Locals, HostLabels, LaneLabels, LaneEnd, Fault
<1>4. Coherent(r)
  BY <1>1, <1>2 DEF Coherent, Locals, Live, LaneEnd, Fault
<1>5. Recorded(c, r, receipts, evidence)
  BY <1>1, <1>2
  DEF Recorded, Coherent, Locals, Running, Won, Nothing, Receipt, LaneEnd,
      Fault
<1>6. ~Met(r) => Mine(c, r, staging, work, receipts, evidence)
  BY <1>1, <1>2
  DEF Mine, Coherent, Locals, Running, Live, Met, Promoting, LaneEnd, Fault
<1>7. /\ Live(r) => Live(call[c])
      /\ Ran(r) => Ran(call[c])
      /\ Met(r) <=> Met(call[c])
      /\ Over(call[c]) => Over(r)
      /\ call[c].pc # "new"
  BY <1>1, <1>2 DEF Ran, Met, Over, Locals, Live, Coherent, LaneEnd, Fault
<1> HIDE DEF r
<1> QED
  BY <1>2, <1>3, <1>4, <1>5, <1>6, <1>7, LocalStep

LEMMA HearAnswerStep == ASSUME Inv, NEW c \in Calls, HearAnswer(c) PROVE Inv'
<1> DEFINE r == [Closing(call[c]) EXCEPT !.good = call[c].said]
<1>1. /\ call[c] \in Locals /\ Coherent(call[c])
      /\ Recorded(c, call[c], receipts, evidence)
      /\ ~Met(call[c]) => Mine(c, call[c], staging, work, receipts, evidence)
  BY Knows
<1>2. /\ call[c].pc = "settle" /\ call[c].said # None
      /\ call' = [call EXCEPT ![c] = r] /\ UNCHANGED files
  BY DEF HearAnswer, Set
<1>3. r \in Locals
  BY <1>1, <1>2 DEF Locals, HostLabels, LaneLabels, Closing
<1>4. Coherent(r)
  BY <1>1, <1>2 DEF Coherent, Locals, Live, Closing
<1>5. Recorded(c, r, receipts, evidence)
  BY <1>1, <1>2
  DEF Recorded, Coherent, Locals, Running, Won, Nothing, Receipt, Closing
<1>6. ~Met(r) => Mine(c, r, staging, work, receipts, evidence)
  BY <1>1, <1>2
  DEF Mine, Coherent, Locals, Running, Live, Met, Promoting, Closing
<1>7. /\ Live(r) => Live(call[c])
      /\ Ran(r) => Ran(call[c])
      /\ Met(r) <=> Met(call[c])
      /\ Over(call[c]) => Over(r)
      /\ call[c].pc # "new"
  BY <1>1, <1>2 DEF Ran, Met, Over, Locals, Live, Coherent, Closing
<1> HIDE DEF r
<1> QED
  BY <1>2, <1>3, <1>4, <1>5, <1>6, <1>7, LocalStep

LEMMA HostDiesStep == ASSUME Inv, NEW c \in Calls, HostDies(c) PROVE Inv'
<1> DEFINE r == Fault(HostEnd(call[c], "dead"))
<1>1. /\ call[c] \in Locals /\ Coherent(call[c])
      /\ Recorded(c, call[c], receipts, evidence)
      /\ ~Met(call[c]) => Mine(c, call[c], staging, work, receipts, evidence)
  BY Knows
<1>2. /\ call[c].pc \notin {"new", "over", "dead"}
      /\ call' = [call EXCEPT ![c] = r] /\ UNCHANGED files
  BY DEF HostDies, Set
<1>3. r \in Locals
  BY <1>1, <1>2, ZenonT(60) DEF Locals, HostLabels, LaneLabels, HostEnd, Fault
<1>4. Coherent(r)
  BY <1>1, <1>2 DEF Coherent, Locals, Live, HostEnd, Fault
<1>5. Recorded(c, r, receipts, evidence)
  BY <1>1, <1>2
  DEF Recorded, Coherent, Locals, Running, Won, Nothing, Receipt, HostEnd,
      Fault
<1>6. ~Met(r) => Mine(c, r, staging, work, receipts, evidence)
  BY <1>1, <1>2
  DEF Mine, Coherent, Locals, Running, Live, Met, Promoting, HostEnd, Fault
<1>7. /\ Live(r) => Live(call[c])
      /\ Ran(r) => Ran(call[c])
      /\ Met(r) <=> Met(call[c])
      /\ Over(call[c]) => Over(r)
      /\ call[c].pc # "new"
  BY <1>1, <1>2 DEF Ran, Met, Over, Locals, Live, Coherent, HostEnd, Fault
<1> HIDE DEF r
<1> QED
  BY <1>2, <1>3, <1>4, <1>5, <1>6, <1>7, LocalStep

LEMMA WaitForExitStep == ASSUME Inv, NEW c \in Calls, WaitForExit(c) PROVE Inv'
<1> DEFINE r == IF call[c].good THEN [call[c] EXCEPT !.pc = "check"]
                ELSE HostEnd(call[c], "over")
<1>1. /\ call[c] \in Locals /\ Coherent(call[c])
      /\ Recorded(c, call[c], receipts, evidence)
      /\ ~Met(call[c]) => Mine(c, call[c], staging, work, receipts, evidence)
  BY Knows
<1>2. /\ call[c].pc = "closing" /\ (~Alive(c) \/ call[c].closed)
      /\ call' = [call EXCEPT ![c] = r] /\ UNCHANGED files
  BY DEF WaitForExit, Set
<1>3. r \in Locals
  BY <1>1, <1>2 DEF Locals, HostLabels, LaneLabels, HostEnd, Alive
<1>4. Coherent(r)
  BY <1>1, <1>2 DEF Coherent, Locals, Live, HostEnd, Alive
<1>5. Recorded(c, r, receipts, evidence)
  BY <1>1, <1>2
  DEF Recorded, Coherent, Locals, Running, Won, Nothing, Receipt, HostEnd,
      Alive
<1>6. ~Met(r) => Mine(c, r, staging, work, receipts, evidence)
  BY <1>1, <1>2
  DEF Mine, Coherent, Locals, Running, Live, Met, Promoting, HostEnd, Alive
<1>7. /\ Live(r) => Live(call[c])
      /\ Ran(r) => Ran(call[c])
      /\ Met(r) <=> Met(call[c])
      /\ Over(call[c]) => Over(r)
      /\ call[c].pc # "new"
  BY <1>1, <1>2 DEF Ran, Met, Over, Locals, Live, Coherent, HostEnd, Alive
<1> HIDE DEF r
<1> QED
  BY <1>2, <1>3, <1>4, <1>5, <1>6, <1>7, LocalStep

LEMMA EndTurnStep == ASSUME Inv, NEW c \in Calls, EndTurn(c) PROVE Inv'
<1>0. PICK text \in Texts[c] : Set(c, [call[c] EXCEPT !.lane = "ready", !.wanted = text])
  BY DEF EndTurn
<1> DEFINE r == [call[c] EXCEPT !.lane = "ready", !.wanted = text]
<1>1. /\ call[c] \in Locals /\ Coherent(call[c])
      /\ Recorded(c, call[c], receipts, evidence)
      /\ ~Met(call[c]) => Mine(c, call[c], staging, work, receipts, evidence)
  BY Knows
<1>2. /\ call[c].lane = "turn" /\ text \in Proposals \union {Prose}
      /\ call' = [call EXCEPT ![c] = r] /\ UNCHANGED files
  BY <1>0, LaneAssumption DEF EndTurn, Set, LaneAssumption
<1>3. r \in Locals
  BY <1>1, <1>2 DEF Locals, HostLabels, LaneLabels
<1>4. Coherent(r)
  BY <1>1, <1>2, LaneAssumption DEF Coherent, Locals, Live, LaneAssumption
<1>5. Recorded(c, r, receipts, evidence)
  BY <1>1, <1>2 DEF Recorded, Coherent, Locals, Running, Won, Nothing, Receipt
<1>6. ~Met(r) => Mine(c, r, staging, work, receipts, evidence)
  BY <1>1, <1>2
  DEF Mine, Recorded, Coherent, Locals, Running, Live, Met, Won, Nothing,
      Receipt
<1>7. /\ Live(r) => Live(call[c])
      /\ Ran(r) => Ran(call[c])
      /\ Met(r) <=> Met(call[c])
      /\ Over(call[c]) => Over(r)
      /\ call[c].pc # "new"
  BY <1>1, <1>2 DEF Ran, Met, Over, Locals, Live, Coherent
<1> HIDE DEF r
<1> QED
  BY <1>2, <1>3, <1>4, <1>5, <1>6, <1>7, LocalStep

\* A new receipt that is a completed one of the call's own lane.
LEMMA OwnReceipt ==
    ASSUME Inv, NEW c \in Calls, call[c].pc = "check", ~Met(call[c]), ReceiptFits(c)
    PROVE  Won(c, receipts)
<1>1. /\ \A x \in Added(c) : x.lane = c /\ x.outcome = "completed"
      /\ Added(c) \in SUBSET Receipts
  BY DEF Inv, Types, Mine, Added, ReceiptFits
<1>2. Added(c) # {}
  BY FS_EmptySet DEF ReceiptFits
<1>3. PICK x \in Added(c) : TRUE
  BY <1>2
<1>4. x = [lane |-> c, outcome |-> "completed"]
  BY <1>1, <1>3 DEF Receipts
<1> QED
  BY <1>3, <1>4 DEF Won, Receipt, Added

\* A settlement that went through and disturbed nobody passes both checks.
LEMMA CleanReceiptFits ==
    ASSUME Inv, NEW c \in Calls, call[c].pc = "check",
           call[c].past = "clean", call[c].moved # {}
    PROVE  ReceiptFits(c) /\ \A f \in Sentinels : work[f] # None
<1>1. /\ call[c] \in Locals /\ Coherent(call[c])
      /\ Recorded(c, call[c], receipts, evidence)
      /\ Mine(c, call[c], staging, work, receipts, evidence)
  BY Knows DEF Met
<1>2. /\ Receipt(c, "failed") \notin receipts /\ Won(c, receipts)
      /\ call[c].moved = DOMAIN call[c].wanted /\ call[c].wanted \in Proposals
  BY <1>1 DEF Mine, Promoting, Recorded, Coherent, Live
<1>3. Added(c) = {Receipt(c, "completed")}
  <2>1. ASSUME NEW x \in Added(c) PROVE x = Receipt(c, "completed")
    <3>1. x.lane = c /\ x \in Receipts /\ x \in receipts
      BY <1>1, <2>1 DEF Mine, Added, Inv, Types
    <3>2. x = Receipt(c, x.outcome)
      BY <3>1 DEF Receipts, Receipt
    <3> QED
      BY <1>2, <3>1, <3>2 DEF Receipts
  <2>2. Receipt(c, "completed") \in Added(c)
    BY <1>1, <1>2 DEF Won, Added, Recorded, Nothing, Receipt
  <2> QED
    BY <2>1, <2>2
<1>4. ReceiptFits(c)
  <2>1. Cardinality({Receipt(c, "completed")}) = 1
    BY FS_Singleton
  <2>2. \A x \in Added(c) : x.outcome = "completed"
    BY <1>3 DEF Receipt
  <2> QED
    BY <1>3, <2>1, <2>2 DEF ReceiptFits
<1>5. ASSUME NEW f \in Sentinels PROVE work[f] # None
  <2>1. f \in DOMAIN call[c].wanted /\ call[c].wanted[f] \in Contents
    BY <1>2 DEF Proposals
  <2>2. work[f] = call[c].wanted[f]
    BY <1>1, <1>2, <2>1 DEF Mine
  <2> QED
    BY <2>1, <2>2, LaneAssumption DEF LaneAssumption
<1> QED
  BY <1>4, <1>5

LEMMA CheckReceiptStep == ASSUME Inv, NEW c \in Calls, CheckReceipt(c) PROVE Inv'
<1> DEFINE r == IF Acceptable(c)
                  THEN [call[c] EXCEPT !.pc = "store"]
                  ELSE HostEnd(call[c], "over")
<1>1. /\ call[c] \in Locals /\ Coherent(call[c])
      /\ Recorded(c, call[c], receipts, evidence)
      /\ ~Met(call[c]) => Mine(c, call[c], staging, work, receipts, evidence)
  BY Knows
<1>2. /\ call[c].pc = "check"
      /\ call' = [call EXCEPT ![c] = r] /\ UNCHANGED files
  BY DEF CheckReceipt, Set
<1>3. r \in Locals
  BY <1>1, <1>2 DEF Locals, HostLabels, LaneLabels, HostEnd
<1>4. Coherent(r)
  BY <1>1, <1>2 DEF Coherent, Locals, Live, HostEnd
<1>5. Recorded(c, r, receipts, evidence)
  BY <1>1, <1>2
  DEF Recorded, Coherent, Locals, Running, Won, Nothing, Receipt, HostEnd
<1>6. ASSUME ~Met(r) PROVE Mine(c, r, staging, work, receipts, evidence)
  <2>1. ~Met(call[c]) /\ Mine(c, call[c], staging, work, receipts, evidence)
    BY <1>1, <1>6 DEF Met, HostEnd
  <2>2. CASE Acceptable(c)
    <3>1. Won(c, receipts)
      BY <1>2, <2>1, <2>2, OwnReceipt DEF Acceptable
    <3> QED
      BY <1>1, <1>2, <2>1, <2>2, <3>1
      DEF Mine, Locals, Running, Live, Promoting
  <2>3. CASE ~Acceptable(c)
    <3>1. /\ r = HostEnd(call[c], "over")
          /\ r.pc = "over" /\ r.lane = call[c].lane /\ r.wanted = call[c].wanted
          /\ r.moved = call[c].moved /\ r.past = call[c].past
      BY <1>1, <2>3 DEF Locals, HostEnd
    <3>2. ASSUME r.past = "clean", r.moved # {}
          PROVE  Promoting(c, r, receipts, evidence)
      <4>1. Oversized(call[c].wanted)
        BY <1>2, <2>3, <3>1, <3>2, CleanReceiptFits DEF Acceptable
      <4>2. Promoting(c, call[c], receipts, evidence)
        BY <2>1, <3>1, <3>2 DEF Mine
      <4> QED
        BY <1>2, <3>1, <4>1, <4>2 DEF Promoting
    <3> HIDE DEF r
    <3> QED
      BY <1>2, <2>1, <3>1, <3>2 DEF Mine, Running, Live
  <2> QED
    BY <2>2, <2>3
<1>7. /\ Live(r) => Live(call[c])
      /\ Ran(r) => Ran(call[c])
      /\ Met(r) <=> Met(call[c])
      /\ Over(call[c]) => Over(r)
      /\ call[c].pc # "new"
  BY <1>1, <1>2 DEF Ran, Met, Over, Locals, Live, Coherent, HostEnd
<1> HIDE DEF r
<1> QED
  BY <1>2, <1>3, <1>4, <1>5, <1>6, <1>7, LocalStep

-----------------------------------------------------------------------------
(* Steps that change a file.                                               *)

LEMMA WrapStep == ASSUME Inv, NEW c \in Calls, Wrap(c) PROVE Inv'
<1>1. /\ staging' = staging /\ work' = work /\ wrapped' \in BOOLEAN
      /\ receipts' = receipts /\ evidence' = evidence /\ call' = call
  BY DEF Wrap
<1> QED
  BY <1>1 DEF Inv, Types, Apart

LEMMA StageStep == ASSUME Inv, NEW c \in Calls, Stage(c) PROVE Inv'
<1>0. PICK w \in Writes[c] :
         /\ staging' = [staging EXCEPT ![w[1]] = w[2]]
         /\ Set(c, [call[c] EXCEPT !.reserved = @ \union {w[1]}])
  BY DEF Stage
<1>a. PICK f \in Files, x \in Contents : w = <<f, x>>
  BY LaneAssumption DEF LaneAssumption
<1>b. /\ staging' = [staging EXCEPT ![f] = x]
      /\ Set(c, [call[c] EXCEPT !.reserved = @ \union {f}])
  BY <1>0, <1>a
<1> DEFINE r == [call[c] EXCEPT !.reserved = @ \union {f}]
<1>1. /\ call[c] \in Locals /\ Coherent(call[c])
      /\ Recorded(c, call[c], receipts, evidence)
      /\ ~Met(call[c]) => Mine(c, call[c], staging, work, receipts, evidence)
  BY Knows
<1>2. /\ call[c].lane = "turn" /\ x \in Contents
      /\ call' = [call EXCEPT ![c] = r]
      /\ work' = work /\ wrapped' = wrapped
      /\ receipts' = receipts /\ evidence' = evidence
  BY <1>b DEF Stage, Set
<1>3. r \in Locals /\ staging' \in Staged
  BY <1>a, <1>b, <1>1, <1>2 DEF Locals, Staged, Inv, Types
<1>4. Coherent(r)
  BY <1>1, <1>2 DEF Coherent, Locals, Live
<1>5. Recorded(c, r, receipts, evidence)
  BY <1>1, <1>2 DEF Recorded, Coherent, Locals, Running, Won, Nothing, Receipt
<1>6. ~Met(r) => Mine(c, r, staging', work, receipts, evidence)
  BY <1>1, <1>2 DEF Mine, Coherent, Locals, Running, Live, Met, Promoting
<1>7. StepOf(c, r)
  BY <1>1, <1>2 DEF StepOf, Ran, Met, Over, Locals, Live, Coherent
<1> HIDE DEF r
<1> QED
  BY <1>2, <1>3, <1>4, <1>5, <1>6, <1>7, OwnStep DEF Inv, Types

LEMMA FailStep ==
    ASSUME Inv, NEW c \in Calls, call[c].lane = "commit", Met(call[c]), UNCHANGED files,
           Set(c, [call[c] EXCEPT !.lane = "failing"])
    PROVE  Inv'
<1> DEFINE r == [call[c] EXCEPT !.lane = "failing"]
<1>1. /\ call[c] \in Locals /\ Coherent(call[c])
      /\ Recorded(c, call[c], receipts, evidence)
      /\ ~Met(call[c]) => Mine(c, call[c], staging, work, receipts, evidence)
  BY Knows
<1>2. /\ call[c].lane = "commit" /\ call[c].past = "met"
      /\ call' = [call EXCEPT ![c] = r] /\ UNCHANGED files
  BY DEF Met, Set
<1>3. r \in Locals
  BY <1>1, <1>2 DEF Locals, HostLabels, LaneLabels
<1>4. Coherent(r)
  BY <1>1, <1>2 DEF Coherent, Locals, Live
<1>5. Recorded(c, r, receipts, evidence)
  BY <1>1, <1>2 DEF Recorded, Coherent, Locals, Running, Won, Nothing, Receipt
<1>6. ~Met(r) => Mine(c, r, staging, work, receipts, evidence)
  BY <1>1, <1>2 DEF Mine, Coherent, Locals, Running, Live, Met, Promoting
<1>7. /\ Live(r) => Live(call[c])
      /\ Ran(r) => Ran(call[c])
      /\ Met(r) <=> Met(call[c])
      /\ Over(call[c]) => Over(r)
      /\ call[c].pc # "new"
  BY <1>1, <1>2 DEF Ran, Met, Over, Locals, Live, Coherent
<1> HIDE DEF r
<1> QED
  BY <1>2, <1>3, <1>4, <1>5, <1>6, <1>7, LocalStep

LEMMA FaultStep ==
    ASSUME Inv, NEW c \in Calls, call[c].lane = "commit", UNCHANGED files,
           Set(c, Fault([call[c] EXCEPT !.lane = "failing"]))
    PROVE  Inv'
<1> DEFINE r == Fault([call[c] EXCEPT !.lane = "failing"])
<1>1. /\ call[c] \in Locals /\ Coherent(call[c])
      /\ Recorded(c, call[c], receipts, evidence)
      /\ ~Met(call[c]) => Mine(c, call[c], staging, work, receipts, evidence)
  BY Knows
<1>2. /\ call[c].lane = "commit"
      /\ call' = [call EXCEPT ![c] = r] /\ UNCHANGED files
  BY DEF Set
<1>3. r \in Locals
  BY <1>1, <1>2 DEF Locals, HostLabels, LaneLabels, Fault
<1>4. Coherent(r)
  BY <1>1, <1>2 DEF Coherent, Locals, Live, Fault
<1>5. Recorded(c, r, receipts, evidence)
  BY <1>1, <1>2
  DEF Recorded, Coherent, Locals, Running, Won, Nothing, Receipt, Fault
<1>6. ~Met(r) => Mine(c, r, staging, work, receipts, evidence)
  BY <1>1, <1>2 DEF Mine, Coherent, Locals, Running, Live, Met, Promoting, Fault
<1>7. /\ Live(r) => Live(call[c])
      /\ Ran(r) => Ran(call[c])
      /\ Met(r) <=> Met(call[c])
      /\ Over(call[c]) => Over(r)
      /\ call[c].pc # "new"
  BY <1>1, <1>2 DEF Ran, Met, Over, Locals, Live, Coherent, Fault
<1> HIDE DEF r
<1> QED
  BY <1>2, <1>3, <1>4, <1>5, <1>6, <1>7, LocalStep

\* A file is renamed into the workspace: what is staged there, if the call met
\* nobody, is what it proposed.
LEMMA RenameStep ==
    ASSUME Inv, NEW c \in Calls, NEW f \in Unmoved(c), NEW r \in Locals,
           call[c].lane = "commit", staging[f] # None, Rename(f),
           call' = [call EXCEPT ![c] = r],
           UNCHANGED <<wrapped, receipts, evidence>>,
           r = [call[c] EXCEPT !.moved = r.moved, !.lane = r.lane, !.past = r.past],
           r.moved = call[c].moved \union {f},
           r.lane \in {"commit", "attest", "failing"},
           Met(r) <=> Met(call[c]),
           r.lane = "attest" => Unmoved(c) = {f},
           r.lane \in {"commit", "attest"} => staging[f] = call[c].wanted[f],
           r.past = "clean" => call[c].past = "clean",
           r.past = "clean" /\ r.lane = "failing" => staging[f] # call[c].wanted[f]
    PROVE  Inv'
<1>1. /\ call[c] \in Locals /\ Coherent(call[c])
      /\ Recorded(c, call[c], receipts, evidence)
      /\ ~Met(call[c]) => Mine(c, call[c], staging, work, receipts, evidence)
  BY Knows
<1>2. /\ staging \in Staged /\ work \in Staged /\ f \in Files
      /\ f \in DOMAIN call[c].wanted /\ f \notin call[c].moved
      /\ call[c].wanted \in Proposals /\ call[c].moved \subseteq DOMAIN call[c].wanted
      /\ call[c].reserved = DOMAIN call[c].wanted
  BY <1>1 DEF Inv, Types, Unmoved, Coherent, Proposals
<1>3. /\ work' = [work EXCEPT ![f] = staging[f]]
      /\ staging' = [staging EXCEPT ![f] = None]
      /\ wrapped' = wrapped /\ receipts' = receipts /\ evidence' = evidence
  BY DEF Rename
<1>4. /\ r.pc = call[c].pc /\ r.before = call[c].before /\ r.reserved = call[c].reserved
      /\ r.wanted = call[c].wanted /\ r.sent = call[c].sent /\ r.said = call[c].said
      /\ r.good = call[c].good /\ r.closed = call[c].closed /\ r.cut = call[c].cut
  BY <1>1 DEF Locals
<1>5. staging' \in Staged /\ work' \in Staged
  BY <1>2, <1>3 DEF Staged
<1>6. Coherent(r)
  BY <1>1, <1>2, <1>4 DEF Coherent, Live, Unmoved
<1>7. Recorded(c, r, receipts, evidence)
  BY <1>1, <1>4 DEF Recorded, Running, Won, Nothing, Receipt
<1>8. ASSUME ~Met(r) PROVE Mine(c, r, staging', work', receipts, evidence)
  <2>1. Mine(c, call[c], staging, work, receipts, evidence)
    BY <1>1, <1>8
  <2>2. ~Won(c, receipts) /\ ~By(c, evidence)
    BY <1>1, <2>1 DEF Recorded, Mine, Won, Nothing, Receipt
  <2>3. Receipt(c, "failed") \notin receipts
    BY <1>1 DEF Recorded, Nothing, Receipt
  <2>4. r.lane = "commit" =>
           \A g \in DOMAIN r.wanted \ r.moved : staging'[g] = r.wanted[g]
    BY <1>2, <1>3, <1>4, <2>1 DEF Mine, Staged, Proposals
  <2>5. r.lane \in {"commit", "attest"} => \A g \in r.moved : work'[g] = r.wanted[g]
    BY <1>2, <1>3, <1>4, <2>1 DEF Mine, Staged
  <2>6. \A g \in Files \ r.moved : work'[g] = None
    BY <1>3, <2>1 DEF Mine, Live
  <2>7. r.past = "clean" => r.lane \in {"commit", "attest"}
    BY <1>2, <2>1 DEF Mine
  <2>8. r.pc # "store"
    BY <2>1, <2>2, <1>4 DEF Mine
  <2> QED
    BY <1>4, <2>1, <2>2, <2>3, <2>4, <2>5, <2>6, <2>7, <2>8 DEF Mine, Promoting
<1>9. StepOf(c, r)
  BY <1>1, <1>3, <1>4 DEF StepOf, Ran, Over, Live, Coherent
<1> QED
  BY <1>3, <1>5, <1>6, <1>7, <1>8, <1>9, OwnStep DEF Inv, Types

LEMMA CommitFileStep == ASSUME Inv, NEW c \in Calls, CommitFile(c) PROVE Inv'
<1>0. call[c] \in Locals /\ call[c].lane = "commit" /\ Coherent(call[c])
  BY Knows DEF CommitFile
<1>1. PICK f \in Unmoved(c) :
         IF staging[f] = None
           THEN Set(c, [call[c] EXCEPT !.lane = "failing"]) /\ UNCHANGED files
           ELSE /\ Set(c, Moved(c, f)) /\ Rename(f)
                /\ UNCHANGED <<wrapped, receipts, evidence>>
  BY DEF CommitFile
<1>2. CASE staging[f] = None
  <2>1. CASE Met(call[c])
    BY <1>0, <1>1, <1>2, <2>1, FailStep
  <2>2. CASE ~Met(call[c])
    <3>1. Mine(c, call[c], staging, work, receipts, evidence)
      BY <2>2, Knows
    <3>2. staging[f] = call[c].wanted[f] /\ call[c].wanted[f] \in Contents
      BY <1>0, <3>1 DEF Mine, Unmoved, Coherent, Proposals
    <3> QED
      BY <1>2, <3>2, LaneAssumption DEF LaneAssumption
  <2> QED
    BY <2>1, <2>2
<1>3. CASE staging[f] # None
  <2> DEFINE r == Moved(c, f)
  <2>1. /\ call' = [call EXCEPT ![c] = r] /\ Rename(f)
        /\ UNCHANGED <<wrapped, receipts, evidence>>
    BY <1>1, <1>3 DEF Set
  <2>2. f \in Files /\ call[c].moved \subseteq Files
    BY <1>0 DEF Unmoved, Coherent, Proposals, Locals
  <2>3. r \in Locals
    BY <1>0, <2>2 DEF Moved, Locals, LaneLabels
  <2>4. /\ r = [call[c] EXCEPT !.moved = r.moved, !.lane = r.lane, !.past = r.past]
        /\ r.moved = call[c].moved \union {f} /\ r.past = call[c].past
        /\ r.lane = IF staging[f] # call[c].wanted[f] THEN "failing"
                    ELSE IF Unmoved(c) = {f} THEN "attest" ELSE "commit"
    BY <1>0 DEF Moved, Locals
  <2> HIDE DEF r
  <2> QED
    BY <1>0, <1>3, <2>1, <2>3, <2>4, RenameStep DEF Met
<1> QED
  BY <1>2, <1>3

LEMMA CommitFaultStep == ASSUME Inv, NEW c \in Calls, CommitFault(c) PROVE Inv'
<1>0. call[c] \in Locals /\ call[c].lane = "commit" /\ Coherent(call[c])
  BY Knows DEF CommitFault
<1> DEFINE q == Fault([call[c] EXCEPT !.lane = "failing"])
<1>1. /\ q \in Locals /\ q.lane = "failing" /\ q.moved = call[c].moved
      /\ q.past = IF call[c].past = "met" THEN "met" ELSE "faulty"
      /\ q = [call[c] EXCEPT !.lane = "failing", !.past = q.past]
  BY <1>0 DEF Fault, Locals, LaneLabels
<1>2. CASE Set(c, q) /\ UNCHANGED files
  BY <1>0, <1>1, <1>2, FaultStep DEF Set
<1>3. ASSUME NEW f \in Unmoved(c), staging[f] # None, Rename(f),
             Set(c, [q EXCEPT !.moved = @ \union {f}]),
             UNCHANGED <<wrapped, receipts, evidence>>
      PROVE  Inv'
  <2> DEFINE r == [q EXCEPT !.moved = @ \union {f}]
  <2>1. call' = [call EXCEPT ![c] = r]
    BY <1>3 DEF Set
  <2>2. f \in Files
    BY <1>0 DEF Unmoved, Coherent, Proposals
  <2>3. r \in Locals
    BY <1>1, <2>2 DEF Locals
  <2>4. /\ r = [call[c] EXCEPT !.moved = r.moved, !.lane = r.lane, !.past = r.past]
        /\ r.moved = call[c].moved \union {f} /\ r.past = q.past /\ r.lane = "failing"
    BY <1>0, <1>1 DEF Locals
  <2> HIDE DEF r, q
  <2> QED
    BY <1>0, <1>1, <1>3, <2>1, <2>3, <2>4, RenameStep DEF Met
<1> QED
  BY <1>2, <1>3 DEF CommitFault

\* The lane leaves a receipt, or fails to, behind the last file.
LEMMA ReceiptStep ==
    ASSUME Inv, NEW c \in Calls, NEW outcome \in {"completed", "failed"},
           NEW r \in Locals, call' = [call EXCEPT ![c] = r],
           UNCHANGED <<staging, work, wrapped, evidence>>,
           receipts' \in {receipts, receipts \union {Receipt(c, outcome)}},
           call[c].lane \in {"attest", "failing"},
           outcome = "completed" => call[c].lane = "attest",
           r = [call[c] EXCEPT !.lane = r.lane, !.said = r.said, !.past = r.past],
           r.lane \in {"failing", "idle"},
           r.lane = "failing" => r.said = None,
           Met(r) <=> Met(call[c]),
           r.past = "clean" => call[c].past = "clean",
           r.past = "clean" /\ call[c].lane = "attest" =>
              /\ receipts' = receipts \union {Receipt(c, "completed")}
              /\ outcome = "completed"
              /\ r.lane = "idle" /\ (call[c].pc = "settle" => r.said = TRUE)
    PROVE  Inv'
<1>1. /\ call[c] \in Locals /\ Coherent(call[c])
      /\ Recorded(c, call[c], receipts, evidence)
      /\ ~Met(call[c]) => Mine(c, call[c], staging, work, receipts, evidence)
  BY Knows
<1>2. /\ staging' = staging /\ work' = work /\ wrapped' = wrapped
      /\ evidence' = evidence
      /\ receipts' = receipts \/ receipts' = receipts \union {Receipt(c, outcome)}
  OBVIOUS
<1>3. receipts' \in SUBSET Receipts
  BY <1>2 DEF Inv, Types, Receipts, Receipt
<1>4. /\ r.pc = call[c].pc /\ r.before = call[c].before /\ r.reserved = call[c].reserved
      /\ r.wanted = call[c].wanted /\ r.sent = call[c].sent /\ r.moved = call[c].moved
      /\ r.good = call[c].good /\ r.closed = call[c].closed /\ r.cut = call[c].cut
  BY <1>1 DEF Locals
<1>5. Coherent(r)
  BY <1>1, <1>4 DEF Coherent, Live
<1>6. /\ Won(c, receipts') =>
            \/ Won(c, receipts)
            \/ outcome = "completed" /\ call[c].lane = "attest"
      /\ \A x \in receipts' \ receipts : x.lane = c
      /\ receipts \subseteq receipts'
  BY <1>2 DEF Won, Receipt
<1>7. Recorded(c, r, receipts', evidence)
  BY <1>1, <1>4, <1>6 DEF Recorded, Coherent, Running
<1>8. ASSUME ~Met(r) PROVE Mine(c, r, staging, work, receipts', evidence)
  <2>1. Mine(c, call[c], staging, work, receipts, evidence)
    BY <1>1, <1>8
  <2>2. Won(c, receipts') => \A f \in r.moved : work[f] = r.wanted[f]
    BY <1>4, <1>6, <2>1 DEF Mine
  <2>3. Won(c, receipts) => Won(c, receipts')
    BY <1>6 DEF Won
  <2>4. ASSUME r.past = "clean", r.moved # {} PROVE Promoting(c, r, receipts', evidence)
    <3>1. Promoting(c, call[c], receipts, evidence)
      BY <1>4, <2>1, <2>4 DEF Mine
    <3>2. call[c].lane = "attest"
      BY <3>1 DEF Promoting
    <3>3. /\ call[c].pc = "settle" /\ r.said = TRUE /\ r.lane = "idle"
          /\ receipts' = receipts \union {Receipt(c, "completed")}
      BY <1>1, <2>4, <3>2 DEF Coherent
    <3>4. Receipt(c, "failed") # Receipt(c, "completed")
      BY DEF Receipt
    <3> QED
      BY <1>4, <3>1, <3>3, <3>4 DEF Promoting, Won
  <2>5. r.pc \in {"turn", "settle", "closing", "check", "store"} =>
           \A x \in receipts' \ r.before : x.lane = c
    BY <1>4, <1>6, <2>1 DEF Mine
  <2>6. Running(r) \/ Live(r) \/ By(c, evidence) => \A f \in Files \ r.moved : work[f] = None
    BY <1>4, <2>1 DEF Mine, Live
  <2> QED
    BY <1>4, <2>1, <2>2, <2>3, <2>4, <2>5, <2>6 DEF Mine
<1>9. StepOf(c, r)
  BY <1>1, <1>2, <1>4, <1>6 DEF StepOf, Ran, Over, Live, Coherent
<1> QED
  BY <1>2, <1>3, <1>5, <1>7, <1>8, <1>9, OwnStep DEF Inv, Types

LEMMA AttestStep == ASSUME Inv, NEW c \in Calls, Attest(c) PROVE Inv'
<1>0. call[c] \in Locals /\ call[c].lane = "attest" /\ Coherent(call[c])
  BY Knows DEF Attest
<1>1. CASE /\ receipts' = receipts \union {Receipt(c, "completed")}
           /\ Set(c, Answer(call[c], TRUE))
  <2> DEFINE r == Answer(call[c], TRUE)
  <2>1. /\ r \in Locals /\ r.lane = "idle" /\ r.past = call[c].past
        /\ call[c].pc = "settle" => r.said = TRUE
        /\ r = [call[c] EXCEPT !.lane = r.lane, !.said = r.said, !.past = r.past]
    BY <1>0 DEF Answer, Locals, LaneLabels
  <2>2. call' = [call EXCEPT ![c] = r] /\ UNCHANGED <<staging, work, wrapped, evidence>>
    BY <1>1 DEF Attest, Set
  <2> HIDE DEF r
  <2> QED
    BY <1>0, <1>1, <2>1, <2>2, ReceiptStep DEF Met
<1>2. CASE /\ receipts' \in {receipts, receipts \union {Receipt(c, "completed")}}
           /\ Set(c, Fault([call[c] EXCEPT !.lane = "failing"]))
  <2> DEFINE r == Fault([call[c] EXCEPT !.lane = "failing"])
  <2>1. /\ r \in Locals /\ r.lane = "failing" /\ r.said = None
        /\ r.past = IF call[c].past = "met" THEN "met" ELSE "faulty"
        /\ r = [call[c] EXCEPT !.lane = r.lane, !.said = r.said, !.past = r.past]
    BY <1>0 DEF Fault, Locals, LaneLabels, Coherent
  <2>2. call' = [call EXCEPT ![c] = r] /\ UNCHANGED <<staging, work, wrapped, evidence>>
    BY <1>2 DEF Attest, Set
  <2> HIDE DEF r
  <2> QED
    BY <1>0, <1>2, <2>1, <2>2, ReceiptStep DEF Met
<1> QED
  BY <1>1, <1>2 DEF Attest

LEMMA AttestFailureStep == ASSUME Inv, NEW c \in Calls, AttestFailure(c) PROVE Inv'
<1>0. call[c] \in Locals /\ call[c].lane = "failing" /\ Coherent(call[c])
  BY Knows DEF AttestFailure
<1>1. PICK yes \in BOOLEAN : Set(c, Answer(call[c], yes))
  BY DEF AttestFailure
<1> DEFINE r == Answer(call[c], yes)
<1>2. /\ r \in Locals /\ r.lane = "idle" /\ r.past = call[c].past
      /\ r = [call[c] EXCEPT !.lane = r.lane, !.said = r.said, !.past = r.past]
  BY <1>0 DEF Answer, Locals, LaneLabels
<1>3. /\ call' = [call EXCEPT ![c] = r] /\ UNCHANGED <<staging, work, wrapped, evidence>>
      /\ receipts' \in {receipts, receipts \union {Receipt(c, "failed")}}
  BY <1>1 DEF AttestFailure, Set
<1> HIDE DEF r
<1> QED
  BY <1>0, <1>2, <1>3, ReceiptStep DEF Met

LEMMA StoreStep == ASSUME Inv, NEW c \in Calls, Store(c) PROVE Inv'
<1>1. /\ call[c] \in Locals /\ Coherent(call[c])
      /\ Recorded(c, call[c], receipts, evidence)
      /\ ~Met(call[c]) => Mine(c, call[c], staging, work, receipts, evidence)
  BY Knows
<1>2. /\ call[c].pc = "store" /\ evidence = None /\ call[c].wanted \in Proposals
      /\ staging' = staging /\ work' = work /\ wrapped' = wrapped /\ receipts' = receipts
  BY <1>1 DEF Store, Recorded, Running, Coherent
<1>3. CASE /\ evidence' = [by |-> c, candidates |-> call[c].wanted]
           /\ Set(c, HostEnd(call[c], "over"))
  <2> DEFINE r == HostEnd(call[c], "over")
  <2>1. call' = [call EXCEPT ![c] = r]
    BY <1>3 DEF Set
  <2>2. /\ r \in Locals /\ r.pc = "over" /\ r.before = {} /\ ~r.good /\ ~r.closed
        /\ r = [call[c] EXCEPT !.pc = "over", !.before = {}, !.good = FALSE, !.closed = FALSE]
    BY <1>1 DEF HostEnd, Locals, HostLabels
  <2>3. /\ evidence' \in [by : Calls, candidates : Proposals]
        /\ evidence'.by = c /\ evidence'.candidates = call[c].wanted
    BY <1>2, <1>3
  <2>4. evidence' \in Evidence /\ evidence' \notin {None, Partial}
    BY <2>3, LaneAssumption DEF Evidence, LaneAssumption
  <2>5. \A d \in Calls \ {c} : ~By(d, evidence')
    BY <2>3 DEF By
  <2>6. Coherent(r)
    BY <1>1, <1>2, <2>2, ZenonT(60) DEF Coherent, Locals, Live
  <2>7. Recorded(c, r, receipts, evidence')
    BY <1>1, <1>2, <2>2 DEF Recorded, Locals, Running, Nothing
  <2>8. ASSUME ~Met(r) PROVE Mine(c, r, staging, work, receipts, evidence')
    <3>1. Mine(c, call[c], staging, work, receipts, evidence) /\ Won(c, receipts)
      BY <1>1, <1>2, <2>2, <2>8 DEF Met, Locals, Mine
    <3>2. Running(call[c]) /\ By(c, evidence')
      BY <1>2, <2>3, <2>4 DEF Running, By
    <3>3. /\ r.lane = call[c].lane /\ r.moved = call[c].moved
          /\ r.wanted = call[c].wanted /\ r.past = call[c].past
      BY <1>1, <2>2 DEF Locals
    <3>4. ASSUME r.past = "clean", r.moved # {}
          PROVE  Promoting(c, r, receipts, evidence')
      <4>1. Promoting(c, call[c], receipts, evidence)
        BY <3>1, <3>3, <3>4 DEF Mine
      <4> QED
        BY <1>2, <2>2, <3>2, <3>3, <4>1 DEF Promoting
    <3> QED
      BY <2>2, <2>3, <3>1, <3>2, <3>3, <3>4 DEF Mine
  <2>9. StepOf(c, r)
    BY <1>1, <1>2, <2>1, <2>2, <2>5
    DEF StepOf, Ran, Met, Over, Locals, Live, Running
  <2> HIDE DEF r
  <2> QED
    BY <1>2, <2>2, <2>4, <2>6, <2>7, <2>8, <2>9, OwnStep DEF Inv, Types
<1>4. CASE evidence' = Partial /\ Set(c, Fault(HostEnd(call[c], "dead")))
  <2> DEFINE r == Fault(HostEnd(call[c], "dead"))
  <2>1. call' = [call EXCEPT ![c] = r]
    BY <1>4 DEF Set
  <2>2. /\ r \in Locals /\ r.pc = "dead" /\ r.before = {} /\ ~r.good /\ ~r.closed
        /\ r.past = IF call[c].past = "met" THEN "met" ELSE "faulty"
        /\ r = [call[c] EXCEPT !.pc = "dead", !.before = {}, !.good = FALSE,
                               !.closed = FALSE, !.past = r.past]
    BY <1>1, ZenonT(60) DEF HostEnd, Fault, Locals, HostLabels
  <2>3. evidence' \in Evidence /\ \A d \in Calls : ~By(d, evidence')
    BY <1>4 DEF By, Evidence
  <2>4. Coherent(r)
    BY <1>1, <1>2, <2>2, ZenonT(60) DEF Coherent, Locals, Live
  <2>5. Recorded(c, r, receipts, evidence')
    BY <1>1, <1>2, <2>2 DEF Recorded, Locals, Running, Nothing
  <2>6. ASSUME ~Met(r) PROVE Mine(c, r, staging, work, receipts, evidence')
    <3>1. Mine(c, call[c], staging, work, receipts, evidence) /\ Running(call[c])
      BY <1>1, <1>2, <2>2, <2>6 DEF Met, Locals, Running
    <3>2. /\ r.lane = call[c].lane /\ r.moved = call[c].moved
          /\ r.wanted = call[c].wanted /\ r.past # "clean"
      BY <1>1, <2>2 DEF Locals
    <3> QED
      BY <2>2, <2>3, <3>1, <3>2 DEF Mine
  <2>7. StepOf(c, r)
    BY <1>1, <1>2, <2>1, <2>2, <2>3
    DEF StepOf, Ran, Met, Over, Locals, Live, Running
  <2> HIDE DEF r
  <2> QED
    BY <1>2, <2>2, <2>3, <2>4, <2>5, <2>6, <2>7, OwnStep DEF Inv, Types
<1> QED
  BY <1>2, <1>3, <1>4 DEF Store

-----------------------------------------------------------------------------
(* A call begins.                                                          *)

LEMMA Earlier == \A c, d \in Calls : d < c => d \in 1..(c - 1)
  BY LaneAssumption DEF LaneAssumption, Calls

LEMMA ObserveStep == ASSUME Inv, NEW c \in Calls, Observe(c) PROVE Inv'
<1>1. /\ call[c] \in Locals /\ Coherent(call[c])
      /\ Recorded(c, call[c], receipts, evidence)
      /\ ~Met(call[c]) => Mine(c, call[c], staging, work, receipts, evidence)
  BY Knows
<1>2. /\ call[c].pc = "new" /\ \A d \in Calls : d < c => Over(call[d])
      /\ staging' = staging /\ work' = work /\ wrapped' = wrapped
      /\ receipts' = receipts /\ evidence' = evidence
  BY Earlier DEF Observe, Over, files
<1>3. CASE evidence # None \/ \E f \in Files : work[f] # None
  <2> DEFINE r == [call[c] EXCEPT !.pc = "over"]
  <2>1. call' = [call EXCEPT ![c] = r]
    BY <1>1, <1>3 DEF Observe, Inv, Types
  <2>2. r \in Locals
    BY <1>1 DEF Locals, HostLabels
  <2>3. Coherent(r)
    BY <1>1, <1>2 DEF Coherent, Locals, Live
  <2>4. Recorded(c, r, receipts, evidence)
    BY <1>1, <1>2 DEF Recorded, Locals, Running
  <2>5. ~Met(r) => Mine(c, r, staging, work, receipts, evidence)
    BY <1>1, <1>2 DEF Mine, Coherent, Locals, Running, Live, Met, Promoting
  <2>6. StepOf(c, r)
    BY <1>1, <1>2, <2>1 DEF StepOf, Ran, Met, Over, Locals, Live
  <2> HIDE DEF r
  <2> QED
    BY <1>2, <2>2, <2>3, <2>4, <2>5, <2>6, OwnStep DEF Inv, Types
<1>4. CASE ~(evidence # None \/ \E f \in Files : work[f] # None)
  <2>1. evidence = None /\ \A f \in Files : work[f] = None
    BY <1>4
  <2> DEFINE r == [Fresh EXCEPT !.pc = "launch",
                     !.past = IF \E e \in Calls : Alive(e) THEN "met" ELSE "clean"]
             q(d) == [call[d] EXCEPT !.past = IF Alive(d) THEN "met" ELSE @]
  <2>2. call' = [d \in Calls |-> IF d = c THEN r ELSE q(d)]
    BY <1>4 DEF Observe
  <2>3. \A d \in Calls : Alive(d) <=> Live(call[d])
    BY DEF Alive, Live
  <2>4. call'[c] = r /\ \A d \in Calls \ {c} : call'[d] = q(d)
    BY <2>2
  <2>5. /\ r \in Locals /\ r.pc = "launch" /\ r.lane = "none" /\ r.before = {}
        /\ r.reserved = {} /\ r.wanted = None /\ ~r.sent /\ r.moved = {}
        /\ r.said = None /\ ~r.good /\ ~r.closed /\ ~r.cut
        /\ Met(r) <=> \E e \in Calls : Live(call[e])
    BY <2>3 DEF Fresh, Locals, HostLabels, LaneLabels, Met
  <2>6. ASSUME NEW d \in Calls
        PROVE  /\ q(d) \in Locals
               /\ Met(q(d)) <=> Met(call[d]) \/ Live(call[d])
               /\ Met(q(d)) \/ q(d) = call[d]
               /\ Ran(q(d)) <=> Ran(call[d])
               /\ Live(q(d)) <=> Live(call[d])
               /\ q(d).pc = call[d].pc
               /\ Coherent(call[d]) => Coherent(q(d))
               /\ Recorded(d, call[d], receipts, evidence) =>
                     Recorded(d, q(d), receipts, evidence)
    <3>1. call[d] \in Locals
      BY DEF Inv, Types
    <3>2. CASE Live(call[d])
      <4>1. q(d) = [call[d] EXCEPT !.past = "met"]
        BY <2>3, <3>2
      <4> HIDE DEF q
      <4>2. /\ q(d) \in Locals /\ q(d).past = "met" /\ q(d).pc = call[d].pc
            /\ q(d).lane = call[d].lane /\ q(d).before = call[d].before
            /\ q(d).reserved = call[d].reserved /\ q(d).wanted = call[d].wanted
            /\ q(d).sent = call[d].sent /\ q(d).moved = call[d].moved
            /\ q(d).said = call[d].said /\ q(d).good = call[d].good
            /\ q(d).closed = call[d].closed /\ q(d).cut = call[d].cut
        BY <3>1, <4>1 DEF Locals
      <4>3. Coherent(call[d]) => Coherent(q(d))
        BY <4>2 DEF Coherent, Live
      <4>4. Recorded(d, call[d], receipts, evidence) =>
               Recorded(d, q(d), receipts, evidence)
        BY <4>2 DEF Recorded, Running
      <4> QED
        BY <3>2, <4>2, <4>3, <4>4 DEF Met, Ran, Live
    <3>3. CASE ~Live(call[d])
      <4>1. q(d) = call[d]
        BY <2>3, <3>1, <3>3 DEF Locals
      <4> HIDE DEF q
      <4> QED
        BY <3>1, <3>3, <4>1
    <3> QED
      BY <3>2, <3>3
  <2> HIDE DEF r, q
  <2>7. Coherent(r) /\ Recorded(c, r, receipts, evidence)
    <3>1. Coherent(r)
      BY <2>5 DEF Coherent, Live
    <3>2. Nothing(c, receipts) /\ evidence = None
      BY <1>1, <1>2, <2>1 DEF Recorded, Coherent
    <3> QED
      BY <2>5, <3>1, <3>2 DEF Recorded, Nothing, Won, Receipt
  <2>8. Mine(c, r, staging, work, receipts, evidence)
    <3>1. Nothing(c, receipts)
      BY <1>1, <1>2 DEF Recorded, Coherent
    <3> QED
      BY <2>1, <2>5, <3>1 DEF Mine, Nothing, Won, Receipt, By
  <2>9. call' \in [Calls -> Locals]
    BY <2>2, <2>5, <2>6
  <2>10. ASSUME NEW d \in Calls \ {c}
         PROVE  /\ Coherent(q(d)) /\ Recorded(d, q(d), receipts, evidence)
                /\ ~Met(q(d)) => Mine(d, q(d), staging, work, receipts, evidence)
    BY <2>6, Knows
  <2>11. ASSUME NEW d \in Calls, ~Met(call[d]) PROVE ~Won(d, receipts)
    <3>1. /\ Mine(d, call[d], staging, work, receipts, evidence)
          /\ Recorded(d, call[d], receipts, evidence)
      BY <2>11, Knows
    <3>2. ASSUME Won(d, receipts) PROVE FALSE
      <4>1. /\ call[d].wanted \in Proposals
            /\ \A f \in DOMAIN call[d].wanted : work[f] = call[d].wanted[f]
        BY <3>1, <3>2 DEF Mine, Recorded
      <4>2. PICK f \in Files : f \in DOMAIN call[d].wanted /\ call[d].wanted[f] \in Contents
        BY <4>1 DEF Proposals
      <4> QED
        BY <2>1, <4>1, <4>2, LaneAssumption DEF LaneAssumption
    <3> QED
      BY <3>2
  <2>12. ASSUME NEW d \in Calls, NEW e \in Calls, d < e PROVE Apart(d, e)'
    <3>1. Apart(d, e) /\ d # e
      BY <2>12, Order DEF Inv
    <3>2. CASE d # c /\ e # c
      BY <2>4, <2>6, <3>1, <3>2, <1>2 DEF Apart, Over
    <3>3. CASE d = c
      <4>1. call[e].pc = "new"
        BY <1>2, <3>1, <3>3 DEF Apart, Over
      <4>2. ~Ran(call[e])
        BY <4>1 DEF Inv, Coherent, Ran
      <4> QED
        BY <2>4, <2>6, <3>1, <3>3, <4>1, <4>2 DEF Apart
    <3>4. CASE e = c
      <4>1. Over(call[d])
        BY <1>2, <2>12, <3>4
      <4>2. ~Met(q(d)) => ~Won(d, receipts)
        BY <2>6, <2>11
      <4> QED
        BY <1>2, <2>4, <2>5, <2>6, <3>1, <3>4, <4>1, <4>2 DEF Apart, Over
    <3> QED
      BY <3>2, <3>3, <3>4
  <2> QED
    BY <1>2, <2>4, <2>7, <2>8, <2>9, <2>10, <2>12 DEF Inv, Types
<1> QED
  BY <1>3, <1>4

-----------------------------------------------------------------------------
(* The invariant.                                                          *)

LEMMA InvInit == Init => Inv
<1> SUFFICES ASSUME Init PROVE Inv
  OBVIOUS
<1>1. Fresh \in Locals /\ Coherent(Fresh)
  BY DEF Fresh, Locals, HostLabels, LaneLabels, Coherent, Live
<1>2. \A c \in Calls : call[c] = Fresh
  BY DEF Init
<1>3. Types
  BY <1>1 DEF Init, Types, Staged, Evidence
<1>4. ASSUME NEW c \in Calls
      PROVE  /\ Recorded(c, Fresh, receipts, evidence)
             /\ Mine(c, Fresh, staging, work, receipts, evidence)
  BY DEF Init, Recorded, Mine, Fresh, Running, Live, Won, Nothing, By
<1>5. \A c, d \in Calls : Apart(c, d)
  BY <1>2 DEF Init, Apart, Fresh, Ran, Live, Won
<1> QED
  BY <1>1, <1>2, <1>3, <1>4, <1>5 DEF Inv

LEMMA InvStep == Inv /\ [Next]_vars => Inv'
<1> SUFFICES ASSUME Inv, [Next]_vars PROVE Inv'
  OBVIOUS
<1>1. ASSUME NEW c \in Calls, HostStep(c) PROVE Inv'
  BY <1>1, LaunchStep, SendSettleStep, GiveUpStep, CloseStreamStep, HearAnswerStep,
     WaitForExitStep, CheckReceiptStep, StoreStep
  DEF HostStep, StreamEnds
<1>2. ASSUME NEW c \in Calls, HandlerStep(c) PROVE Inv'
  BY <1>2, SettleStep, CommitFileStep, AttestStep, AttestFailureStep
  DEF HandlerStep
<1>3. ASSUME NEW c \in Calls, AgentStep(c) PROVE Inv'
  BY <1>3, StageStep, WrapStep, EndTurnStep DEF AgentStep
<1>4. ASSUME NEW c \in Calls, Trouble(c) PROVE Inv'
  BY <1>4, CloseStreamStep, CommitFaultStep, KillStep, HostDiesStep
  DEF Trouble, StreamBreaks
<1>5. CASE UNCHANGED vars
  BY <1>5 DEF vars, Inv, Types, Apart
<1> QED
  BY <1>1, <1>2, <1>3, <1>4, <1>5, ObserveStep, ExitStep DEF Next, Done

LEMMA InvAlways == Spec => []Inv
  BY InvInit, InvStep, PTL DEF Spec

-----------------------------------------------------------------------------
(* The properties of Lane.                                                 *)

LEMMA InvTypeOK == Inv => TypeOK
<1> SUFFICES ASSUME Inv PROVE TypeOK
  OBVIOUS
<1>1. ASSUME NEW c \in Calls
      PROVE  /\ call[c] \in Locals /\ Coherent(call[c])
             /\ call[c].before \subseteq receipts
  BY Knows DEF Recorded
<1>2. ASSUME NEW c \in Calls, call[c].moved # {}
      PROVE  /\ call[c].moved \subseteq DOMAIN call[c].wanted
             /\ Alive(c) => call[c].moved \subseteq call[c].reserved
  BY <1>1, <1>2 DEF Coherent, Live, Alive
<1>3. /\ staging \in [Files -> Contents \union {None}]
      /\ work \in [Files -> Contents \union {None}]
      /\ wrapped \in BOOLEAN
      /\ receipts \subseteq [lane : Calls, outcome : {"completed", "failed"}]
      /\ evidence \in {None, Partial} \union [by : Calls, candidates : Proposals]
  BY DEF Inv, Types, Staged, Receipts, Evidence
<1> QED
  BY <1>1, <1>2, <1>3 DEF TypeOK, Locals, HostLabels, LaneLabels

LEMMA InvEvidence == Inv => EvidenceIsTrue
<1> SUFFICES ASSUME Inv, NEW c \in Calls,
                    evidence \notin {None, Partial}, evidence.by = c, call[c].past # "met"
             PROVE  /\ work = [f \in Files |-> IF f \in DOMAIN evidence.candidates
                                                 THEN evidence.candidates[f] ELSE None]
                    /\ Receipt(c, "completed") \in receipts
  BY DEF EvidenceIsTrue
<1>1. /\ Mine(c, call[c], staging, work, receipts, evidence)
      /\ Recorded(c, call[c], receipts, evidence)
  BY Knows DEF Met
<1>2. By(c, evidence) /\ evidence.candidates = call[c].wanted /\ Won(c, receipts)
  BY <1>1 DEF By, Mine
<1>3. /\ call[c].moved = DOMAIN call[c].wanted
      /\ \A f \in call[c].moved : work[f] = call[c].wanted[f]
      /\ \A f \in Files \ call[c].moved : work[f] = None
  BY <1>1, <1>2 DEF Mine, Recorded
<1>4. work \in [Files -> Contents \union {None}]
  BY DEF Inv, Types, Staged
<1> QED
  BY <1>2, <1>3, <1>4 DEF Won

LEMMA InvReceipt == Inv => ReceiptIsTrue
  BY Knows DEF ReceiptIsTrue, Mine, Recorded, Won, Met

LEMMA InvAllOrNothing == Inv => AllOrNothing
<1> SUFFICES ASSUME Inv, NEW c \in Calls, Rest(c), call[c].past = "clean",
                    call[c].moved # {}
             PROVE  \/ evidence \notin {None, Partial} /\ evidence.by = c
                    \/ /\ Oversized(call[c].wanted)
                       /\ call[c].moved = DOMAIN call[c].wanted
                       /\ Receipt(c, "completed") \in receipts
  BY DEF AllOrNothing
<1>1. /\ Promoting(c, call[c], receipts, evidence)
      /\ Recorded(c, call[c], receipts, evidence)
  BY Knows DEF Mine, Met
<1>2. call[c].pc \in {"over", "dead"} /\ call[c].lane \in {"none", "gone"}
  BY DEF Rest, Alive
<1>3. Won(c, receipts) /\ (By(c, evidence) \/ Oversized(call[c].wanted))
  BY <1>1, <1>2 DEF Promoting
<1> QED
  BY <1>1, <1>3 DEF Recorded, Won, By

LEMMA InvLaneEnds == Inv => LaneEndsWithCall
  BY Knows DEF LaneEndsWithCall, Coherent, Live, Alive

\* The locals of host and lane and the shared files have their types; a lane
\* moves only files that it staged and that were proposed, for any number of
\* invocations, files and proposals (lane-extension.ts:498-542).
THEOREM LaneTyped == Spec => []TypeOK
  BY InvAlways, InvTypeOK, PTL

\* Stored evidence is what the workspace differs in from the base, for as long
\* as the run exists (production-host.ts:916-946).
THEOREM EvidenceStaysTrue == Spec => []EvidenceIsTrue
  BY InvAlways, InvEvidence, PTL

\* A receipt that says `completed` is true of the workspace from then on
\* (lane-extension.ts:568-583).
THEOREM ReceiptStaysTrue == Spec => []ReceiptIsTrue
  BY InvAlways, InvReceipt, PTL

\* A clean settlement that moved a file ends in stored evidence, or has moved
\* and attested all of a proposal that is too long for evidence
\* (lane-extension.ts:516-574, production-host.ts:485).
THEOREM SettlesAllOrNothing == Spec => []AllOrNothing
  BY InvAlways, InvAllOrNothing, PTL

\* No lane outlives an invocation that returned and whose stream was not cut
\* (launcher.ts:249-267).
THEOREM NoLaneBehind == Spec => []LaneEndsWithCall
  BY InvAlways, InvLaneEnds, PTL

=============================================================================
