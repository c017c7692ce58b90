----------------------- MODULE WorkerRegistryProofs -----------------------
(***************************************************************************)
(* Proofs about WorkerRegistry, for any number of workers, URLs, health    *)
(* polls and faults.  That a removal survives depends on one more fact:    *)
(* while a call holds the lock, nothing has been answered for its worker,  *)
(* so that a statement that fails with effect contradicts no answer.       *)
(***************************************************************************)
EXTENDS WorkerRegistry, TLAPS

Unanswered == call # NoWorker => asked[call] = Unknown

IInv == TypeOK /\ Unanswered /\ RemovalsSurvive

-----------------------------------------------------------------------------
LEMMA InitHolds == Init => IInv
BY SeedsAssumption, NamesAssumption DEF Init, IInv, TypeOK, Unanswered, RemovalsSurvive

(* What a call writes is a record, or it removes the worker. *)
LEMMA PersistKeepsType ==
    ASSUME TypeOK, call # NoWorker, Persist
    PROVE  /\ row' \in [Workers -> Records \cup {NoRecord}]
           /\ listed' \subseteq {w \in Workers : row'[w] # NoRecord}
BY DEF TypeOK, Persist, SaveRecord, DeleteRecord

(* A late status changes the URL of a record and nothing else. *)
LEMMA SaveStatusKeepsType ==
    ASSUME TypeOK, NEW w \in Workers, NEW url \in Urls, SaveStatus(w, url)
    PROVE  /\ row' \in [Workers -> Records \cup {NoRecord}]
           /\ listed' \subseteq {v \in Workers : row'[v] # NoRecord}
           /\ listed' = listed
BY NamesAssumption DEF TypeOK, SaveStatus, Records

LEMMA TypeStep ==
    ASSUME IInv, [Next]_vars
    PROVE  TypeOK'
<1> USE NamesAssumption, SeedsAssumption, UrlsAssumption DEF IInv
<1>1. CASE Load
  BY <1>1 DEF Load, TypeOK, SeedRecord, Records
<1>2. ASSUME NEW w \in Workers, LoadSeed(w) PROVE TypeOK'
  <2>0. SeedRecord \in Records /\ NoRecord \notin Records
    BY DEF SeedRecord, Records
  <2>1. w \in Workers /\ SeedRecord \in Records /\ SeedRecord # NoRecord
    BY <2>0
  <2>2. /\ row' = [row EXCEPT ![w] = SeedRecord] /\ known' = [known EXCEPT ![w] = SeedRecord]
        /\ listed' = listed \cup {w} /\ UNCHANGED <<phase, call, polls, asked, faults>>
    BY <1>2 DEF LoadSeed, SaveRecord
  <2> QED BY <2>1, <2>2 DEF TypeOK
<1>3. CASE Loaded
  BY <1>3 DEF Loaded, TypeOK
<1>4. ASSUME NEW w \in Workers, NEW r \in Records, Upsert(w, r) PROVE TypeOK'
  BY <1>4 DEF Upsert, TypeOK
<1>5. ASSUME NEW w \in Workers, Delete(w) PROVE TypeOK'
  BY <1>5 DEF Delete, TypeOK
<1>6. CASE CallEnds
  BY <1>6, PersistKeepsType DEF CallEnds, TypeOK
<1>7. CASE CallRaises
  BY <1>7, PersistKeepsType DEF CallRaises, Fault, TypeOK
<1>8. ASSUME NEW p \in Polls, PollReads(p) PROVE TypeOK'
  <2>1. polls' \in [Polls -> SUBSET Statuses]
    BY <1>8 DEF PollReads, TypeOK, Statuses, Records
  <2> QED BY <1>8, <2>1 DEF PollReads, TypeOK
<1>9. ASSUME NEW p \in Polls, PollStores(p) PROVE TypeOK'
  <2>1. PICK status \in polls[p] :
            /\ SaveStatus(status[1], status[2])
            /\ polls' = [polls EXCEPT ![p] = @ \ {status}]
    BY <1>9 DEF PollStores
  <2>2. status[1] \in Workers /\ status[2] \in Urls
    BY DEF TypeOK, Statuses
  <2> QED BY <1>9, <2>1, <2>2, SaveStatusKeepsType DEF PollStores, TypeOK
<1>10. ASSUME NEW p \in Polls, PollRaises(p) PROVE TypeOK'
  <2>1. CASE UNCHANGED <<row, listed>>
    BY <1>10, <2>1 DEF PollRaises, Fault, TypeOK
  <2>2. ASSUME NEW status \in polls[p], SaveStatus(status[1], status[2])
        PROVE  TypeOK'
    <3>1. status[1] \in Workers /\ status[2] \in Urls
      BY DEF TypeOK, Statuses
    <3> QED BY <1>10, <2>2, <3>1, SaveStatusKeepsType DEF PollRaises, Fault, TypeOK
  <2> QED BY <1>10, <2>1, <2>2 DEF PollRaises
<1>11. CASE Crash
  BY <1>11 DEF Crash, Fault, TypeOK
<1>12. CASE UNCHANGED vars
  BY <1>12 DEF vars, TypeOK
<1> QED BY <1>1, <1>2, <1>3, <1>4, <1>5, <1>6, <1>7, <1>8, <1>9, <1>10, <1>11, <1>12 DEF Next

(* A removal that was answered is undone by no step: only the call that    *)
(* holds the lock, whose answer is outstanding, may list its worker.       *)
LEMMA RemovalsKept ==
    ASSUME IInv, [Next]_vars
    PROVE  Unanswered' /\ RemovalsSurvive'
<1> USE NamesAssumption, SeedsAssumption DEF IInv, TypeOK, Unanswered, RemovalsSurvive
<1>1. CASE Load
  BY <1>1 DEF Load
<1>2. ASSUME NEW w \in Workers, LoadSeed(w) PROVE Unanswered' /\ RemovalsSurvive'
  BY <1>2 DEF LoadSeed, SaveRecord
<1>3. CASE Loaded
  BY <1>3 DEF Loaded
<1>4. ASSUME NEW w \in Workers, NEW r \in Records, Upsert(w, r)
      PROVE  Unanswered' /\ RemovalsSurvive'
  BY <1>4 DEF Upsert
<1>5. ASSUME NEW w \in Workers, Delete(w) PROVE Unanswered' /\ RemovalsSurvive'
  BY <1>5 DEF Delete
<1>6. CASE CallEnds
  BY <1>6 DEF CallEnds, Persist, SaveRecord, DeleteRecord
<1>7. CASE CallRaises
  BY <1>7 DEF CallRaises, Persist, SaveRecord, DeleteRecord
<1>8. ASSUME NEW p \in Polls, PollReads(p) PROVE Unanswered' /\ RemovalsSurvive'
  BY <1>8 DEF PollReads
<1>9. ASSUME NEW p \in Polls, PollStores(p) PROVE Unanswered' /\ RemovalsSurvive'
  BY <1>9 DEF PollStores, SaveStatus
<1>10. ASSUME NEW p \in Polls, PollRaises(p) PROVE Unanswered' /\ RemovalsSurvive'
  BY <1>10 DEF PollRaises, SaveStatus
<1>11. CASE Crash
  BY <1>11 DEF Crash
<1>12. CASE UNCHANGED vars
  BY <1>12 DEF vars
<1> QED BY <1>1, <1>2, <1>3, <1>4, <1>5, <1>6, <1>7, <1>8, <1>9, <1>10, <1>11, <1>12 DEF Next

-----------------------------------------------------------------------------
(* The inductive invariant of the registry and its rows in the store. *)
THEOREM Invariance == Spec => []IInv
<1>1. Init => IInv
  BY InitHolds
<1>2. IInv /\ [Next]_vars => IInv'
  BY TypeStep, RemovalsKept DEF IInv
<1> QED BY <1>1, <1>2, PTL DEF Spec

(* Every variable keeps its type, and a listed worker has a record. *)
THEOREM TypeCorrect == Spec => []TypeOK
<1>1. IInv => TypeOK
  BY DEF IInv
<1> QED BY <1>1, Invariance, PTL

(* A worker whose removal was answered and that is no seed stays removed,  *)
(* through any number of restarts, late statuses and failed statements.    *)
THEOREM RemovalsSurviveHolds == Spec => []RemovalsSurvive
<1>1. IInv => RemovalsSurvive
  BY DEF IInv
<1> QED BY <1>1, Invariance, PTL
===========================================================================
