--------------------------- MODULE VerifierProofs ---------------------------
(***************************************************************************)
(* For any commit and any number of invocations the detailed verification  *)
(* implements the abstract verdict.                                        *)
(*                                                                         *)
(* EvidenceInv follows the evidence of an undisturbed invocation: a file is *)
(* still to be extracted, being written by this very invocation, or whole; *)
(* after the extraction all are whole, and a check that passed a file has  *)
(* seen it whole.  So a completed status means a sound commit.             *)
(***************************************************************************)
EXTENDS Verifier, TLAPS

AllWhole == \A f \in Files : tree[f] = Whole

EvidenceInv ==
    /\ \A r \in Invocations :
          verdict[r] = "none" => todo[r] = {} /\ writing[r] = NoFile
    /\ lease # NoOne =>
          /\ p.pc # "none"
          /\ p.pc # "extract" => todo[lease] = {} /\ writing[lease] = NoFile
          /\ p.pc \in {"extract", "walk", "check"} => p.status = "none"
          /\ p.pc = "post" => p.status # "completed"
          /\ p.pc = "decide" /\ p.status = "completed" => <<lease, "completed">> \in receipts
    /\ lease # NoOne /\ lease \notin disturbed =>
          /\ p.pc = "extract" =>
                \A f \in Files : \/ f \in todo[lease]
                                 \/ writing[lease] = f /\ tree[f] = lease
                                 \/ tree[f] = Whole
          /\ p.pc # "extract" => AllWhole
          /\ p.pc = "check" => broken \subseteq p.left
          /\ p.status \in {"passed", "completed"} => broken = {}

Inv == TypeOK /\ EvidenceInv

-----------------------------------------------------------------------------
(* The types.                                                              *)

LEMMA TypeInit == Init => TypeOK
  BY FilesAssumption, InvocationsAssumption
  DEF Init, TypeOK, Nothing, Blank, ProgramPoints, Statuses

LEMMA TypeStep == TypeOK /\ [Next]_vars => TypeOK'
<1> SUFFICES ASSUME TypeOK, [Next]_vars PROVE TypeOK'
  OBVIOUS
<1> USE InvocationsAssumption DEF TypeOK, ProgramPoints, Statuses, At, tars
<1>1. ASSUME NEW r \in Invocations, Start(r) PROVE TypeOK'
  BY <1>1 DEF Start, Blank, Nothing
<1>2. ASSUME NEW r \in Invocations, Tar(r) PROVE TypeOK'
  <2>1. CASE TarOpen(r)
    BY <2>1 DEF TarOpen
  <2>2. CASE TarClose(r)
    BY <2>2 DEF TarClose
  <2> QED
    BY <1>2, <2>1, <2>2 DEF Tar
<1>3. ASSUME NEW r \in Invocations, TarEnds(r) PROVE TypeOK'
  BY <1>3 DEF TarEnds
<1>4. CASE Throw \/ Crash \/ Decide
  BY <1>4 DEF Throw, Crash, Decide, End, Blank, Nothing
<1>5. CASE Command
  <2>1. p' \in [pc : ProgramPoints, pre : [Files -> Invocations \union {Absent, Whole}],
                left : SUBSET Files, status : Statuses]
    <3>1. CASE Walk
      <4>1. PICK listed \in SUBSET Files :
               p' = [p EXCEPT !.pc = "check", !.left = listed] \/ Exit("failed")
        BY <3>1 DEF Walk
      <4> QED
        BY <4>1 DEF Exit
    <3>2. CASE CommandExits
      BY <3>2 DEF CommandExits, Exit
    <3>3. ASSUME NEW f \in Files, CheckFile(f)
          PROVE  p' = [p EXCEPT !.left = @ \ {f}] \/ Exit("failed")
      BY <3>3 DEF CheckFile
    <3>4. ASSUME NEW f \in Files,
                 p' = [p EXCEPT !.left = @ \ {f}] \/ Exit("failed")
          PROVE  p' \in [pc : ProgramPoints,
                         pre : [Files -> Invocations \union {Absent, Whole}],
                         left : SUBSET Files, status : Statuses]
      <4>1. CASE Exit("failed")
        BY <4>1 DEF Exit
      <4>2. CASE p' = [p EXCEPT !.left = @ \ {f}]
        <5>1. p.left \ {f} \in SUBSET Files
          OBVIOUS
        <5>2. p' = [p EXCEPT !.left = p.left \ {f}]
          BY <4>2
        <5> QED
          BY <5>1, <5>2
      <4> QED
        BY <3>4, <4>1, <4>2
    <3> QED
      BY <1>5, <3>1, <3>2, <3>3, <3>4 DEF Command
  <2>2. UNCHANGED <<broken, tree, tars, lease, verdict, receipts, disturbed>>
    BY <1>5 DEF Command, Walk, CommandExits, CheckFile
  <2> QED
    BY <2>1, <2>2
<1>6. CASE PreManifest \/ Timeout
  BY <1>6 DEF PreManifest, Timeout, Exit
<1>7. CASE PostManifest
  BY <1>7 DEF PostManifest, Outcome
<1>8. CASE WriteReceipt
  BY <1>8 DEF WriteReceipt
<1>9. CASE UNCHANGED vars
  BY <1>9 DEF vars
<1> QED
  BY <1>1, <1>2, <1>3, <1>4, <1>5, <1>6, <1>7, <1>8, <1>9 DEF Next, Host, Rest

-----------------------------------------------------------------------------
(* The evidence.                                                           *)

LEMMA EvidenceInit == Init => EvidenceInv
  BY DEF Init, EvidenceInv

LEMMA EvidenceStep == TypeOK /\ EvidenceInv /\ [Next]_vars => EvidenceInv'
<1> SUFFICES ASSUME TypeOK, EvidenceInv, [Next]_vars PROVE EvidenceInv'
  OBVIOUS
<1> USE InvocationsAssumption, FilesAssumption DEF TypeOK, EvidenceInv, AllWhole, At, tars
<1>1. ASSUME NEW r \in Invocations, Start(r) PROVE EvidenceInv'
  BY <1>1 DEF Start, Blank
<1>2. ASSUME NEW r \in Invocations, TarOpen(r) PROVE EvidenceInv'
  <2>1. PICK f \in todo[r] : /\ writing' = [writing EXCEPT ![r] = f]
                             /\ todo' = [todo EXCEPT ![r] = @ \ {f}]
                             /\ tree' = [tree EXCEPT ![f] = r]
    BY <1>2 DEF TarOpen
  <2>2. f \in Files /\ writing[r] = NoFile
    BY <1>2 DEF TarOpen
  <2>3. CASE lease = r
    BY <1>2, <2>1, <2>2, <2>3 DEF TarOpen
  <2>4. CASE lease # r
    <3>1. lease # NoOne => lease \in disturbed'
      BY <1>2, <2>4 DEF TarOpen
    <3>2. lease # NoOne => todo'[lease] = todo[lease] /\ writing'[lease] = writing[lease]
      BY <2>1, <2>4
    <3>3. verdict[r] = "none" \/ verdict[r] # "none"
      OBVIOUS
    <3> QED
      BY <1>2, <2>1, <2>2, <2>4, <3>1, <3>2 DEF TarOpen
  <2> QED
    BY <2>3, <2>4
<1>3. ASSUME NEW r \in Invocations, TarClose(r) PROVE EvidenceInv'
  BY <1>3 DEF TarClose
<1>4. ASSUME NEW r \in Invocations, TarEnds(r) PROVE EvidenceInv'
  BY <1>4 DEF TarEnds
<1>5. CASE Throw \/ Crash \/ Decide
  BY <1>5 DEF Throw, Crash, Decide, End
<1>6. CASE PreManifest
  BY <1>6 DEF PreManifest
<1>7. CASE Walk
  <2>1. UNCHANGED <<broken, tree, todo, writing, lease, verdict, receipts, disturbed>>
    BY <1>7 DEF Walk
  <2>2. p.pc = "walk" /\ p.status = "none" /\ lease # NoOne
    BY <1>7 DEF Walk
  <2>3. PICK listed \in SUBSET { f \in Files : tree[f] # Absent } :
           /\ { f \in Files : tree[f] = Whole } \subseteq listed
           /\ IF listed = {} THEN Exit("failed")
                             ELSE p' = [p EXCEPT !.pc = "check", !.left = listed]
    BY <1>7 DEF Walk
  <2>4. \/ p'.pc = "post" /\ p'.status = "failed"
        \/ p'.pc = "check" /\ p'.left = listed /\ p'.status = "none"
    BY <2>2, <2>3 DEF Exit
  <2>5. CASE lease \in disturbed
    BY <2>1, <2>2, <2>4, <2>5
  <2>6. CASE lease \notin disturbed
    <3>1. AllWhole
      BY <2>2, <2>6
    <3>2. listed = Files
      <4>1. listed \subseteq Files
        OBVIOUS
      <4>2. Files \subseteq { f \in Files : tree[f] = Whole }
        BY <3>1
      <4> QED
        BY <2>3, <4>1, <4>2
    <3>3. CASE p'.pc = "post" /\ p'.status = "failed"
      BY <2>1, <2>2, <2>6, <3>1, <3>3
    <3>4. CASE p'.pc = "check" /\ p'.left = listed /\ p'.status = "none"
      BY <2>1, <2>2, <2>6, <3>1, <3>2, <3>4
    <3> QED
      BY <2>4, <3>3, <3>4
  <2> QED
    BY <2>5, <2>6
<1>8. ASSUME NEW f \in Files, CheckFile(f) PROVE EvidenceInv'
  <2>1. UNCHANGED <<broken, tree, todo, writing, lease, verdict, receipts, disturbed>>
    BY <1>8 DEF CheckFile
  <2>2. p.pc = "check" /\ p.status = "none" /\ lease # NoOne
    BY <1>8 DEF CheckFile
  <2>3. \/ p'.pc = "post" /\ p'.status = "failed"
        \/ /\ p'.pc = "check" /\ p'.left = p.left \ {f} /\ p'.status = "none"
           /\ tree[f] = Whole => f \notin broken
    BY <1>8, <2>2 DEF CheckFile, Passes, Exit
  <2> QED
    BY <2>1, <2>2, <2>3
<1>9. CASE CommandExits \/ Timeout
  BY <1>9, ZenonT(60) DEF CommandExits, Timeout, Exit
<1>10. CASE PostManifest
  BY <1>10 DEF PostManifest, Outcome
<1>11. CASE WriteReceipt
  BY <1>11 DEF WriteReceipt
<1>12. CASE UNCHANGED vars
  BY <1>12 DEF vars
<1> QED
  BY <1>1, <1>2, <1>3, <1>4, <1>5, <1>6, <1>7, <1>8, <1>9, <1>10, <1>11, <1>12
  DEF Next, Host, Command, Tar, Rest

-----------------------------------------------------------------------------
(* The refinement.                                                         *)

LEMMA AbstractInit == Init => Abstract!Init
  BY DEF Init, Abstract!Init

LEMMA AbstractStep ==
    TypeOK /\ EvidenceInv /\ [Next]_vars => [Abstract!Next]_Abstract!vars
<1> SUFFICES ASSUME TypeOK, EvidenceInv, [Next]_vars
             PROVE  [Abstract!Next]_Abstract!vars
  OBVIOUS
<1> USE InvocationsAssumption DEF TypeOK, At, tars
<1>1. ASSUME NEW r \in Invocations, Start(r) PROVE Abstract!Begin(r)
  BY <1>1 DEF Start, Abstract!Begin, Abstract!Moves
<1>2. ASSUME NEW r \in Invocations, TarOpen(r) PROVE [Abstract!Next]_Abstract!vars
  <2>1. CASE lease \in {r, NoOne}
    BY <1>2, <2>1 DEF TarOpen, Abstract!vars
  <2>2. CASE lease \notin {r, NoOne}
    <3>1. PICK s \in Invocations : s = lease
      BY <2>2
    <3>2. Abstract!Disturb(s)
      BY <1>2, <2>2, <3>1 DEF TarOpen, Abstract!Disturb
    <3> QED
      BY <3>2, Zenon DEF Abstract!Next
  <2> QED
    BY <2>1, <2>2
<1>3. ASSUME NEW r \in Invocations, TarClose(r) \/ TarEnds(r)
      PROVE  UNCHANGED Abstract!vars
  BY <1>3 DEF TarClose, TarEnds, Abstract!vars
<1>4. CASE Throw \/ Crash
  <2>1. PICK r \in Invocations : r = lease
    BY <1>4 DEF Throw, Crash
  <2>2. Abstract!Refuse(r)
    BY <1>4, <2>1, ZenonT(60) DEF Throw, Crash, End, Abstract!Refuse, Abstract!Moves
  <2> QED
    BY <2>2, Zenon DEF Abstract!Next
<1>5. CASE Decide
  <2>1. PICK r \in Invocations : r = lease
    BY <1>5 DEF Decide
  <2>2. Abstract!Accept(r) \/ Abstract!Refuse(r)
    BY <1>5, <2>1
    DEF Decide, End, EvidenceInv, Abstract!Accept, Abstract!Refuse, Abstract!Moves
  <2> QED
    BY <2>2, Zenon DEF Abstract!Next
<1>6. CASE WriteReceipt
  <2>1. PICK r \in Invocations : r = lease
    BY <1>6 DEF WriteReceipt
  <2>2. CASE p.status = "completed"
    <3>1. Abstract!Certify(r)
      BY <1>6, <2>1, <2>2 DEF WriteReceipt, EvidenceInv, Abstract!Certify
    <3> QED
      BY <3>1, Zenon DEF Abstract!Next
  <2>3. CASE p.status # "completed"
    BY <1>6, <2>1, <2>3 DEF WriteReceipt, Abstract!vars
  <2> QED
    BY <2>2, <2>3
<1>7. CASE PreManifest \/ Timeout \/ PostManifest \/ Command
  BY <1>7 DEF PreManifest, Timeout, PostManifest, Command, Walk, CommandExits,
              CheckFile, Abstract!vars
<1>8. CASE UNCHANGED vars
  BY <1>8 DEF vars, Abstract!vars
<1>9. ASSUME NEW r \in Invocations, Start(r) PROVE Abstract!Next
  BY <1>1, <1>9, Zenon DEF Abstract!Next
<1> QED
  BY <1>2, <1>3, <1>4, <1>5, <1>6, <1>7, <1>8, <1>9 DEF Next, Host, Tar, Rest

-----------------------------------------------------------------------------
(* The theorems.                                                           *)

\* The types hold, and the evidence of an undisturbed invocation is what its
\* program point says.
THEOREM EvidenceHolds == Spec => []Inv
<1>1. Init => Inv
  BY TypeInit, EvidenceInit DEF Inv
<1>2. Inv /\ [Next]_vars => Inv'
  BY TypeStep, EvidenceStep DEF Inv
<1> QED
  BY <1>1, <1>2, PTL DEF Spec

\* A commit is accepted only with a receipt, and a receipt says completed only of
\* a sound commit, unless the tar of a dead invocation was still writing.
THEOREM VerdictImplemented == Spec => ImplementsVerdict
<1>1. Inv /\ [Next]_vars => [Abstract!Next]_Abstract!vars
  BY AbstractStep DEF Inv
<1> QED
  BY <1>1, AbstractInit, EvidenceHolds, PTL
  DEF Spec, ImplementsVerdict, Abstract!Spec

=============================================================================
