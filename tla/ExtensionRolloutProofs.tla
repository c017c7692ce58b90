----------------------- MODULE ExtensionRolloutProofs -----------------------
(***************************************************************************)
(* Proofs about ExtensionRollout, for all sets of calls, workers and       *)
(* accounts and any number of disturbances.                                *)
(***************************************************************************)
EXTENDS ExtensionRollout, TLAPS

(* A call that has not reached gather has asked no worker, and the package  *)
(* that a worker was asked to install is recorded.                          *)
Asked ==
    /\ \A c \in Calls : at[c] \in {"idle", "store", "set"} =>
           \A w \in Workers : step[c][w] = "none" /\ reply[c][w] = "none"
    /\ \A c \in Calls : at[c] \in {"store", "set"} => pack[c] \in Calls
    /\ \A c \in Calls, w \in Workers : step[c][w] # "none" => pack[c] \in recorded

FirstInv == TypeOK /\ Asked /\ RecordedFirst

(* What a Chrome has loaded, as TypeOK and RecordedFirst have it. *)
ChromeInv ==
    /\ browser \in [Workers -> [Accounts -> {"down", "spawning", "up"}]]
    /\ loaded \in [Workers -> [Accounts -> Copies \cup {Pending}]]
    /\ missed \in [Workers -> SUBSET Accounts]
    /\ \A w \in Workers, a \in Accounts : loaded[w][a] \in recorded \cup {None, Broken, Pending}

(* A spawned Chrome has loaded nothing, or reads the directory later. *)
LEMMA SpawnStep ==
    ASSUME FirstInv, NEW w \in Workers, NEW a \in Accounts, Spawn(w, a), recorded' = recorded
    PROVE  ChromeInv'
<1>1. PICK found \in {None, Pending} : loaded' = [loaded EXCEPT ![w][a] = found]
  BY DEF Spawn
<1>2. /\ loaded' \in [Workers -> [Accounts -> Copies \cup {Pending}]]
      /\ \A x \in Workers, b \in Accounts : loaded'[x][b] \in recorded \cup {None, Broken, Pending}
  BY <1>1 DEF FirstInv, TypeOK, RecordedFirst, Copies
<1>3. QED
  BY <1>2 DEF Spawn, FirstInv, TypeOK, ChromeInv

(* A Chrome that has ended has nothing loaded. *)
LEMMA DownStep ==
    ASSUME FirstInv, NEW w \in Workers, NEW a \in Accounts, Down(w, a), recorded' = recorded
    PROVE  ChromeInv'
<1>1. /\ loaded' \in [Workers -> [Accounts -> Copies \cup {Pending}]]
      /\ \A x \in Workers, b \in Accounts : loaded'[x][b] \in recorded \cup {None, Broken, Pending}
  BY DEF Down, FirstInv, TypeOK, RecordedFirst, Copies
<1>2. QED
  BY <1>1 DEF Down, FirstInv, TypeOK, ChromeInv

(* The first half of a restart, which may find nothing to stop. *)
LEMMA StopsStep ==
    ASSUME FirstInv, NEW w \in Workers, NEW a \in Accounts, StopsBrowser(w, a), recorded' = recorded
    PROVE  ChromeInv'
<1>1. CASE Down(w, a)
  BY <1>1, DownStep
<1>2. CASE UNCHANGED chrome
  BY <1>2 DEF chrome, FirstInv, TypeOK, RecordedFirst, ChromeInv
<1>3. QED
  BY <1>1, <1>2 DEF StopsBrowser

(* Types, and that packages are recorded before they are installed. *)
LEMMA FirstStep ==
    ASSUME FirstInv, [Next]_vars
    PROVE  FirstInv'
<1> USE NamesAssumption, FaultsAssumption
<1>1. ASSUME NEW c \in Calls, NEW t \in BOOLEAN, NEW r \in BOOLEAN, Upload(c, t, r)
       PROVE FirstInv'
  BY <1>1 DEF Upload, FirstInv, Asked, RecordedFirst, TypeOK, Swaps, Restarts, Copies, work,
       disk, chrome
<1>2. ASSUME NEW c \in Calls, NEW t \in SUBSET Workers, NEW r \in BOOLEAN, ApplyCurrent(c, t, r)
       PROVE FirstInv'
  BY <1>2 DEF ApplyCurrent, Install, FirstInv, Asked, RecordedFirst, TypeOK, Swaps, Restarts,
       Copies, disk, chrome
<1>3. ASSUME NEW c \in Calls, Stored(c) PROVE FirstInv'
  BY <1>3 DEF Stored, FirstInv, Asked, RecordedFirst, TypeOK, Swaps, Restarts, Copies, work,
       disk, chrome
<1>4. ASSUME NEW c \in Calls, Recorded(c) PROVE FirstInv'
  <2>1. /\ pack[c] \in Calls /\ recorded' = recorded \cup {pack[c]} /\ current' = pack[c]
        /\ at[c] = "set"
        /\ UNCHANGED <<pack, apply, restart, left, on, dir, backup, last, unsecured, browser, loaded, missed, faults>>
    BY <1>4 DEF Recorded, SetCurrent, FirstInv, Asked, disk, chrome
  <2>2. CASE apply[c]
    <3>1. Install(c, Workers)
      BY <1>4, <2>2 DEF Recorded
    <3>2. TypeOK'
      BY <2>1, <3>1 DEF Install, FirstInv, Asked, TypeOK, Swaps, Restarts
    <3>3. Asked'
      BY <2>1, <3>1 DEF Install, FirstInv, Asked, TypeOK, Swaps, Restarts
    <3>4. RecordedFirst'
      BY <2>1 DEF FirstInv, RecordedFirst
    <3>5. QED
      BY <3>2, <3>3, <3>4 DEF FirstInv
  <2>3. CASE ~apply[c]
    <3>1. at' = [at EXCEPT ![c] = "answered"] /\ reply' = reply /\ step' = step
      BY <1>4, <2>3 DEF Recorded
    <3>2. TypeOK' /\ Asked'
      BY <2>1, <3>1 DEF FirstInv, Asked, TypeOK, Swaps, Restarts
    <3>3. RecordedFirst'
      BY <2>1 DEF FirstInv, RecordedFirst
    <3>4. QED
      BY <3>2, <3>3 DEF FirstInv
  <2>4. QED
    BY <2>2, <2>3
<1>5. ASSUME NEW c \in Calls, UploadRaises(c) PROVE FirstInv'
  BY <1>5 DEF UploadRaises, SetCurrent, Fault, FirstInv, Asked, RecordedFirst, TypeOK, Swaps,
       Restarts, Copies, work, disk, chrome
<1>6. ASSUME NEW c \in Calls, Answered(c) PROVE FirstInv'
  BY <1>6 DEF Answered, FirstInv, Asked, RecordedFirst, TypeOK, Swaps, Restarts, Copies, work,
       disk, chrome
<1>7. ASSUME NEW c \in Calls, NEW w \in Workers, RequestFails(c, w) PROVE FirstInv'
  BY <1>7 DEF RequestFails, Fault, FirstInv, Asked, RecordedFirst, TypeOK, Swaps, Restarts,
       Copies, fleet, work, disk, chrome
<1>8. ASSUME NEW c \in Calls, NEW w \in Workers, Fetched(c, w) PROVE FirstInv'
  BY <1>8 DEF Fetched, Free, FirstInv, Asked, RecordedFirst, TypeOK, Swaps, Restarts, Copies,
       fleet
<1>9. ASSUME NEW c \in Calls, NEW w \in Workers, FetchRaises(c, w) PROVE FirstInv'
  BY <1>9 DEF FetchRaises, Free, Fault, Ends, Reply, FirstInv, Asked, RecordedFirst, TypeOK,
       Swaps, Restarts, Copies, fleet, disk, chrome
<1>10. ASSUME NEW c \in Calls, NEW w \in Workers, BackedUp(c, w) PROVE FirstInv'
  BY <1>10 DEF BackedUp, GoesOn, FirstInv, Asked, RecordedFirst, TypeOK, Swaps, Restarts,
       Copies, fleet, chrome
<1>11. ASSUME NEW c \in Calls, NEW w \in Workers, Clears(c, w) PROVE FirstInv'
  BY <1>11 DEF Clears, GoesOn, FirstInv, Asked, RecordedFirst, TypeOK, Swaps, Restarts,
       Copies, fleet, chrome
<1>12. ASSUME NEW c \in Calls, NEW w \in Workers, Copied(c, w) PROVE FirstInv'
  BY <1>12 DEF Copied, GoesOn, FirstInv, Asked, RecordedFirst, TypeOK, Swaps, Restarts,
       Copies, fleet, chrome
<1>13. ASSUME NEW c \in Calls, NEW w \in Workers, Dropped(c, w) PROVE FirstInv'
  BY <1>13 DEF Dropped, GoesOn, FirstInv, Asked, RecordedFirst, TypeOK, Swaps, Restarts,
       Copies, fleet, chrome
<1>14. ASSUME NEW c \in Calls, NEW w \in Workers, DiskFails(c, w) PROVE FirstInv'
  BY <1>14 DEF DiskFails, Fault, Ends, Reply, FirstInv, Asked, RecordedFirst, TypeOK, Swaps,
       Restarts, Copies, fleet, disk, chrome
<1>15. ASSUME NEW c \in Calls, NEW w \in Workers, NEW a \in Accounts, Restart(c, w, a)
       PROVE FirstInv'
  <2>1. recorded' = recorded
    BY <1>15 DEF Restart, fleet
  <2>2. ChromeInv'
    BY <1>15, <2>1, StopsStep DEF Restart
  <2>3. (step[c][w] = "restart" /\ on[c][w] = None) /\ a # None
    BY <1>15 DEF Restart, FirstInv, TypeOK
  <2>4. TypeOK'
    BY <1>15, <2>2, <2>3 DEF Restart, ChromeInv, FirstInv, TypeOK, Swaps, Restarts, fleet, disk
  <2>5. Asked' /\ RecordedFirst'
    BY <1>15, <2>1, <2>2 DEF Restart, ChromeInv, FirstInv, TypeOK, Asked, RecordedFirst,
         Swaps, Restarts, fleet, disk
  <2>6. QED
    BY <2>4, <2>5 DEF FirstInv
<1>16. ASSUME NEW c \in Calls, NEW w \in Workers, StartsAgain(c, w) PROVE FirstInv'
  <2>1. recorded' = recorded
    BY <1>16 DEF StartsAgain, fleet
  <2>2. on[c][w] \in Accounts
    BY <1>16 DEF StartsAgain, FirstInv, TypeOK
  <2>3. ChromeInv'
    <3>1. CASE browser[w][on[c][w]] = "down"
      BY <1>16, <2>1, <2>2, <3>1, SpawnStep DEF StartsAgain
    <3>2. CASE browser[w][on[c][w]] # "down"
      BY <1>16, <2>1, <3>2 DEF StartsAgain, chrome, ChromeInv, FirstInv, TypeOK, RecordedFirst
    <3>3. QED
      BY <3>1, <3>2
  <2>4. TypeOK'
    BY <1>16, <2>3 DEF StartsAgain, GoesOn, ChromeInv, FirstInv, TypeOK, Swaps, Restarts,
         fleet, disk
  <2>5. Asked' /\ RecordedFirst'
    BY <1>16, <2>1, <2>3 DEF StartsAgain, GoesOn, ChromeInv, FirstInv, TypeOK, Asked,
         RecordedFirst, Swaps, Restarts, fleet, disk
  <2>6. QED
    BY <2>4, <2>5 DEF FirstInv
<1>17. ASSUME NEW c \in Calls, NEW w \in Workers, Restarted(c, w) PROVE FirstInv'
  BY <1>17 DEF Restarted, Free, FirstInv, Asked, RecordedFirst, TypeOK, Swaps, Restarts,
       Copies, fleet, disk, chrome
<1>18. ASSUME NEW c \in Calls, NEW w \in Workers, Installed(c, w) PROVE FirstInv'
  BY <1>18 DEF Installed, Free, Ends, Reply, FirstInv, Asked, RecordedFirst, TypeOK, Swaps,
       Restarts, Copies, fleet, disk, chrome
<1>19. ASSUME NEW w \in Workers, NEW a \in Accounts, Starts(w, a) PROVE FirstInv'
  BY <1>19 DEF Starts, Free, Spawn, FirstInv, Asked, RecordedFirst, TypeOK, Swaps, Restarts,
       Copies, fleet, work, disk
<1>20. ASSUME NEW w \in Workers, NEW a \in Accounts, Stops(w, a) PROVE FirstInv'
  BY <1>20 DEF Stops, Free, Down, FirstInv, Asked, RecordedFirst, TypeOK, Swaps, Restarts,
       Copies, fleet, work, disk
<1>21. ASSUME NEW w \in Workers, NEW a \in Accounts, BecomesUp(w, a) PROVE FirstInv'
  BY <1>21 DEF BecomesUp, Free, FirstInv, Asked, RecordedFirst, TypeOK, Swaps, Restarts,
       Copies, fleet, work, disk
<1>22. ASSUME NEW w \in Workers, NEW a \in Accounts, Loads(w, a) PROVE FirstInv'
  BY <1>22 DEF Loads, FirstInv, Asked, RecordedFirst, TypeOK, Swaps, Restarts, Copies, fleet,
       work, disk
<1>23. ASSUME NEW w \in Workers, NEW a \in Accounts, Dies(w, a) PROVE FirstInv'
  BY <1>23 DEF Dies, Fault, Down, FirstInv, Asked, RecordedFirst, TypeOK, Swaps, Restarts,
       Copies, fleet, work, disk
<1>24. ASSUME NEW w \in Workers, WorkerCrashes(w) PROVE FirstInv'
  BY <1>24 DEF WorkerCrashes, Fault, FirstInv, Asked, RecordedFirst, TypeOK, Swaps, Restarts,
       Copies, fleet, disk
<1>25. CASE OrchestratorCrashes
  BY <1>25 DEF OrchestratorCrashes, Fault, FirstInv, Asked, RecordedFirst, TypeOK, Swaps,
       Restarts, Copies, work, disk, chrome
<1>26. CASE UNCHANGED vars
  BY <1>26 DEF FirstInv, Asked, RecordedFirst, TypeOK, Swaps, Restarts, Copies, vars, fleet,
       work, disk, chrome
<1>27. QED
  BY <1>1, <1>2, <1>3, <1>4, <1>5, <1>6, <1>7, <1>8, <1>9, <1>10, <1>11, <1>12, <1>13, <1>14,
       <1>15, <1>16, <1>17, <1>18, <1>19, <1>20, <1>21, <1>22, <1>23, <1>24, <1>25, <1>26 DEF
       Next, OrchestratorStep, InstallStep, BrowserStep

(* Where a whole package is at each point of a replacement. *)
Saved ==
    /\ PackageSurvives
    /\ \A c \in Calls, w \in Workers :
           /\ step[c][w] = "backup" /\ w \notin unsecured => dir[w] \in Calls
           /\ step[c][w] \in {"clear", "copy"} /\ w \notin unsecured => backup[w] \in Calls
           /\ step[c][w] = "drop" => dir[w] \in Calls

SavedInv == FirstInv /\ Saved

(* A whole package is kept by every step of a replacement. *)
LEMMA SavedStep ==
    ASSUME SavedInv, [Next]_vars
    PROVE  Saved'
<1> USE NamesAssumption, FaultsAssumption
<1>1. ASSUME NEW c \in Calls, NEW t \in BOOLEAN, NEW r \in BOOLEAN, Upload(c, t, r)
       PROVE Saved'
  BY <1>1 DEF Upload, SavedInv, Saved, PackageSurvives, FirstInv, Asked, TypeOK, Swaps,
       Restarts, work, disk, chrome
<1>2. ASSUME NEW c \in Calls, NEW t \in SUBSET Workers, NEW r \in BOOLEAN, ApplyCurrent(c, t, r)
       PROVE Saved'
  BY <1>2 DEF ApplyCurrent, Install, SavedInv, Saved, PackageSurvives, FirstInv, Asked,
       TypeOK, Swaps, Restarts, disk, chrome
<1>3. ASSUME NEW c \in Calls, Stored(c) PROVE Saved'
  BY <1>3 DEF Stored, SavedInv, Saved, PackageSurvives, FirstInv, Asked, TypeOK, Swaps,
       Restarts, work, disk, chrome
<1>4. ASSUME NEW c \in Calls, Recorded(c) PROVE Saved'
  <2>1. /\ UNCHANGED <<pack, apply, restart, left, on, dir, backup, last, unsecured, browser, loaded, missed>>
        /\ \A v \in Workers : step[c][v] = "none" /\ reply[c][v] = "none"
    BY <1>4 DEF Recorded, disk, chrome, SavedInv, FirstInv, TypeOK, Asked
  <2>2. \A d \in Calls, v \in Workers :
            \/ step'[d][v] = step[d][v] /\ reply'[d][v] = reply[d][v]
            \/ /\ step[d][v] = "none" /\ step'[d][v] \in {"none", "fetch"}
               /\ reply[d][v] = "none" /\ reply'[d][v] \in {"none", "awaited"}
    <3>1. CASE apply[c]
      <4>1. /\ reply' = [reply EXCEPT ![c] = [w \in Workers |-> IF w \in Workers THEN "awaited" ELSE "none"]]
            /\ step' = [step EXCEPT ![c] = [w \in Workers |-> IF w \in Workers THEN "fetch" ELSE "none"]]
        BY <1>4, <3>1 DEF Recorded, Install
      <4>2. DOMAIN reply = Calls /\ DOMAIN step = Calls
        BY DEF SavedInv, FirstInv, TypeOK
      <4>3. QED
        BY <2>1, <4>1, <4>2
    <3>2. CASE ~apply[c]
      BY <1>4, <3>2 DEF Recorded
    <3>3. QED
      BY <3>1, <3>2
  <2>3. QED
    BY <2>1, <2>2 DEF SavedInv, Saved, PackageSurvives
<1>5. ASSUME NEW c \in Calls, UploadRaises(c) PROVE Saved'
  BY <1>5 DEF UploadRaises, SetCurrent, Fault, SavedInv, Saved, PackageSurvives, FirstInv,
       Asked, TypeOK, Swaps, Restarts, work, disk, chrome
<1>6. ASSUME NEW c \in Calls, Answered(c) PROVE Saved'
  BY <1>6 DEF Answered, SavedInv, Saved, PackageSurvives, FirstInv, Asked, TypeOK, Swaps,
       Restarts, work, disk, chrome
<1>7. ASSUME NEW c \in Calls, NEW w \in Workers, RequestFails(c, w) PROVE Saved'
  BY <1>7 DEF RequestFails, Fault, SavedInv, Saved, PackageSurvives, FirstInv, Asked, TypeOK,
       Swaps, Restarts, fleet, work, disk, chrome
<1>8. ASSUME NEW c \in Calls, NEW w \in Workers, Fetched(c, w) PROVE Saved'
  BY <1>8 DEF Fetched, Free, SavedInv, Saved, PackageSurvives, FirstInv, Asked, TypeOK, Swaps,
       Restarts, fleet
<1>9. ASSUME NEW c \in Calls, NEW w \in Workers, FetchRaises(c, w) PROVE Saved'
  BY <1>9 DEF FetchRaises, Free, Fault, Ends, Reply, SavedInv, Saved, PackageSurvives,
       FirstInv, Asked, TypeOK, Swaps, Restarts, fleet, disk, chrome
<1>10. ASSUME NEW c \in Calls, NEW w \in Workers, BackedUp(c, w) PROVE Saved'
  BY <1>10 DEF BackedUp, GoesOn, SavedInv, Saved, PackageSurvives, FirstInv, Asked, TypeOK,
       Swaps, Restarts, fleet, chrome
<1>11. ASSUME NEW c \in Calls, NEW w \in Workers, Clears(c, w) PROVE Saved'
  BY <1>11 DEF Clears, GoesOn, SavedInv, Saved, PackageSurvives, FirstInv, Asked, TypeOK,
       Swaps, Restarts, fleet, chrome
<1>12. ASSUME NEW c \in Calls, NEW w \in Workers, Copied(c, w) PROVE Saved'
  BY <1>12 DEF Copied, GoesOn, SavedInv, Saved, PackageSurvives, FirstInv, Asked, TypeOK,
       Swaps, Restarts, fleet, chrome
<1>13. ASSUME NEW c \in Calls, NEW w \in Workers, Dropped(c, w) PROVE Saved'
  BY <1>13 DEF Dropped, GoesOn, SavedInv, Saved, PackageSurvives, FirstInv, Asked, TypeOK,
       Swaps, Restarts, fleet, chrome
<1>14. ASSUME NEW c \in Calls, NEW w \in Workers, DiskFails(c, w) PROVE Saved'
  BY <1>14 DEF DiskFails, Fault, Ends, Reply, SavedInv, Saved, PackageSurvives, FirstInv,
       Asked, TypeOK, Swaps, Restarts, fleet, disk, chrome
<1>15. ASSUME NEW c \in Calls, NEW w \in Workers, NEW a \in Accounts, Restart(c, w, a)
       PROVE Saved'
  BY <1>15 DEF Restart, Free, StopsBrowser, Down, SavedInv, Saved, PackageSurvives, FirstInv,
       Asked, TypeOK, Swaps, Restarts, fleet, disk, chrome
<1>16. ASSUME NEW c \in Calls, NEW w \in Workers, StartsAgain(c, w) PROVE Saved'
  BY <1>16 DEF StartsAgain, Free, Spawn, GoesOn, SavedInv, Saved, PackageSurvives, FirstInv,
       Asked, TypeOK, Swaps, Restarts, fleet, disk, chrome
<1>17. ASSUME NEW c \in Calls, NEW w \in Workers, Restarted(c, w) PROVE Saved'
  BY <1>17 DEF Restarted, Free, SavedInv, Saved, PackageSurvives, FirstInv, Asked, TypeOK,
       Swaps, Restarts, fleet, disk, chrome
<1>18. ASSUME NEW c \in Calls, NEW w \in Workers, Installed(c, w) PROVE Saved'
  BY <1>18 DEF Installed, Free, Ends, Reply, SavedInv, Saved, PackageSurvives, FirstInv,
       Asked, TypeOK, Swaps, Restarts, fleet, disk, chrome
<1>19. ASSUME NEW w \in Workers, NEW a \in Accounts, Starts(w, a) PROVE Saved'
  BY <1>19 DEF Starts, Free, Spawn, SavedInv, Saved, PackageSurvives, FirstInv, Asked, TypeOK,
       Swaps, Restarts, fleet, work, disk
<1>20. ASSUME NEW w \in Workers, NEW a \in Accounts, Stops(w, a) PROVE Saved'
  BY <1>20 DEF Stops, Free, Down, SavedInv, Saved, PackageSurvives, FirstInv, Asked, TypeOK,
       Swaps, Restarts, fleet, work, disk
<1>21. ASSUME NEW w \in Workers, NEW a \in Accounts, BecomesUp(w, a) PROVE Saved'
  BY <1>21 DEF BecomesUp, Free, SavedInv, Saved, PackageSurvives, FirstInv, Asked, TypeOK,
       Swaps, Restarts, fleet, work, disk
<1>22. ASSUME NEW w \in Workers, NEW a \in Accounts, Loads(w, a) PROVE Saved'
  BY <1>22 DEF Loads, SavedInv, Saved, PackageSurvives, FirstInv, Asked, TypeOK, Swaps,
       Restarts, fleet, work, disk
<1>23. ASSUME NEW w \in Workers, NEW a \in Accounts, Dies(w, a) PROVE Saved'
  BY <1>23 DEF Dies, Fault, Down, SavedInv, Saved, PackageSurvives, FirstInv, Asked, TypeOK,
       Swaps, Restarts, fleet, work, disk
<1>24. ASSUME NEW w \in Workers, WorkerCrashes(w) PROVE Saved'
  BY <1>24 DEF WorkerCrashes, Fault, SavedInv, Saved, PackageSurvives, FirstInv, Asked,
       TypeOK, Swaps, Restarts, fleet, disk
<1>25. CASE OrchestratorCrashes
  BY <1>25 DEF OrchestratorCrashes, Fault, SavedInv, Saved, PackageSurvives, FirstInv, Asked,
       TypeOK, Swaps, Restarts, work, disk, chrome
<1>26. CASE UNCHANGED vars
  BY <1>26 DEF SavedInv, Saved, PackageSurvives, FirstInv, Asked, TypeOK, Swaps, Restarts,
       Copies, vars, fleet, work, disk, chrome
<1>27. QED
  BY <1>1, <1>2, <1>3, <1>4, <1>5, <1>6, <1>7, <1>8, <1>9, <1>10, <1>11, <1>12, <1>13, <1>14,
       <1>15, <1>16, <1>17, <1>18, <1>19, <1>20, <1>21, <1>22, <1>23, <1>24, <1>25, <1>26 DEF
       Next, OrchestratorStep, InstallStep, BrowserStep

(* The account needs no restart by c any more, or is still to be restarted. *)
Done(c, w, a) == (a \in left[c][w] /\ browser[w][a] = "up") \/ Runs(w, a, pack[c])

(* What a replacement has reached, as long as no other has begun: during the *)
(* replacement nothing is spawned that was not spawning before; after it the *)
(* directory holds the package, and a browser has it or will be restarted.   *)
Reached(c, w) ==
    /\ step[c][w] \in Swaps => last[w] = c
    /\ reply[c][w] = "ok" => step[c][w] = "ended"
    /\ step[c][w] \in {"none", "fetch", "ended"} => left[c][w] = {}
    /\ last[w] = c =>
         /\ (step[c][w] \in {"drop"} \cup Restarts \/ reply[c][w] = "ok") => dir[w] = pack[c]
         /\ restart[c] =>
              /\ step[c][w] \in Swaps => \A a \in Accounts \ missed[w] :
                     browser[w][a] = "down" \/ (browser[w][a] = "up" /\ a \in left[c][w])
              /\ (step[c][w] \in Restarts \/ reply[c][w] = "ok") =>
                     \A a \in Accounts \ missed[w] : Done(c, w, a)

AllReached == \A c \in Calls, w \in Workers : Reached(c, w)
ReachedInv == FirstInv /\ AllReached

(* What a replacement has reached is kept by the steps of all others. *)
LEMMA ReachedStep ==
    ASSUME ReachedInv, [Next]_vars
    PROVE  AllReached'
<1> USE NamesAssumption, FaultsAssumption
<1>1. ASSUME NEW c \in Calls, NEW t \in BOOLEAN, NEW r \in BOOLEAN, Upload(c, t, r)
       PROVE AllReached'
  BY <1>1 DEF Upload, ReachedInv, AllReached, Reached, Done, Runs, FirstInv, Asked, TypeOK,
       Swaps, Restarts, work, disk, chrome
<1>2. ASSUME NEW c \in Calls, NEW t \in SUBSET Workers, NEW r \in BOOLEAN, ApplyCurrent(c, t, r)
       PROVE AllReached'
  BY <1>2 DEF ApplyCurrent, Install, ReachedInv, AllReached, Reached, Done, Runs, FirstInv,
       Asked, TypeOK, Swaps, Restarts, disk, chrome
<1>3. ASSUME NEW c \in Calls, Stored(c) PROVE AllReached'
  BY <1>3 DEF Stored, ReachedInv, AllReached, Reached, Done, Runs, FirstInv, Asked, TypeOK,
       Swaps, Restarts, work, disk, chrome
<1>4. ASSUME NEW c \in Calls, Recorded(c) PROVE AllReached'
  <2>1. /\ UNCHANGED <<pack, apply, restart, left, on, dir, backup, last, unsecured, browser, loaded, missed>>
        /\ \A v \in Workers : step[c][v] = "none" /\ reply[c][v] = "none"
    BY <1>4 DEF Recorded, disk, chrome, ReachedInv, FirstInv, TypeOK, Asked
  <2>2. \A d \in Calls, v \in Workers :
            \/ step'[d][v] = step[d][v] /\ reply'[d][v] = reply[d][v]
            \/ /\ step[d][v] = "none" /\ step'[d][v] \in {"none", "fetch"}
               /\ reply[d][v] = "none" /\ reply'[d][v] \in {"none", "awaited"}
    <3>1. CASE apply[c]
      <4>1. /\ reply' = [reply EXCEPT ![c] = [w \in Workers |-> IF w \in Workers THEN "awaited" ELSE "none"]]
            /\ step' = [step EXCEPT ![c] = [w \in Workers |-> IF w \in Workers THEN "fetch" ELSE "none"]]
        BY <1>4, <3>1 DEF Recorded, Install
      <4>2. DOMAIN reply = Calls /\ DOMAIN step = Calls
        BY DEF ReachedInv, FirstInv, TypeOK
      <4>3. QED
        BY <2>1, <4>1, <4>2
    <3>2. CASE ~apply[c]
      BY <1>4, <3>2 DEF Recorded
    <3>3. QED
      BY <3>1, <3>2
  <2>3. QED
    BY <2>1, <2>2 DEF ReachedInv, AllReached, Reached, Done, Runs, Swaps, Restarts
<1>5. ASSUME NEW c \in Calls, UploadRaises(c) PROVE AllReached'
  BY <1>5 DEF UploadRaises, SetCurrent, Fault, ReachedInv, AllReached, Reached, Done, Runs,
       FirstInv, Asked, TypeOK, Swaps, Restarts, work, disk, chrome
<1>6. ASSUME NEW c \in Calls, Answered(c) PROVE AllReached'
  BY <1>6 DEF Answered, ReachedInv, AllReached, Reached, Done, Runs, FirstInv, Asked, TypeOK,
       Swaps, Restarts, work, disk, chrome
<1>7. ASSUME NEW c \in Calls, NEW w \in Workers, RequestFails(c, w) PROVE AllReached'
  BY <1>7 DEF RequestFails, Fault, ReachedInv, AllReached, Reached, Done, Runs, FirstInv,
       Asked, TypeOK, Swaps, Restarts, fleet, work, disk, chrome
<1>8. ASSUME NEW c \in Calls, NEW w \in Workers, Fetched(c, w) PROVE AllReached'
  <2> SUFFICES ASSUME NEW d \in Calls, NEW v \in Workers PROVE Reached(d, v)'
    BY DEF AllReached
  <2>1. Reached(d, v)
    BY DEF ReachedInv, AllReached
  <2>2. CASE v # w
    BY <1>8, <2>1, <2>2 DEF Fetched, fleet, Reached, Done, Runs, ReachedInv, FirstInv, TypeOK
  <2>3. CASE v = w /\ d # c
    BY <1>8, <2>1, <2>3 DEF Fetched, Free, fleet, Reached, ReachedInv, FirstInv, TypeOK
  <2>4. CASE v = w /\ d = c
    <3>1. step'[c][w] \in {"copy", "backup"} /\ reply[c][w] # "ok" /\ reply' = reply /\ last'[w] = c
      BY <1>8, <2>1, <2>4 DEF Fetched, Reached, ReachedInv, FirstInv, TypeOK
    <3>2. restart[c] => \A a \in Accounts \ missed'[w] :
              browser[w][a] = "down" \/ (browser[w][a] = "up" /\ a \in left'[c][w])
      <4>1. left'[c][w] = IF restart[c] THEN {a \in Accounts : browser[w][a] = "up"} ELSE {}
        BY <1>8 DEF Fetched, ReachedInv, FirstInv, TypeOK
      <4>2. missed'[w] = {a \in Accounts : browser[w][a] = "spawning"}
        BY <1>8 DEF Fetched, ReachedInv, FirstInv, TypeOK
      <4>3. \A a \in Accounts : browser[w][a] \in {"down", "spawning", "up"}
        BY DEF ReachedInv, FirstInv, TypeOK
      <4>4. QED
        BY <4>1, <4>2, <4>3
    <3>3. UNCHANGED <<restart, browser>>
      BY <1>8 DEF Fetched, fleet
    <3>4. QED
      BY <2>4, <3>1, <3>2, <3>3 DEF Reached, Swaps, Restarts
  <2>5. QED
    BY <2>2, <2>3, <2>4
<1>9. ASSUME NEW c \in Calls, NEW w \in Workers, FetchRaises(c, w) PROVE AllReached'
  BY <1>9 DEF FetchRaises, Free, Fault, Ends, Reply, ReachedInv, AllReached, Reached, Done,
       Runs, FirstInv, Asked, TypeOK, Swaps, Restarts, fleet, disk, chrome
<1>10. ASSUME NEW c \in Calls, NEW w \in Workers, BackedUp(c, w) PROVE AllReached'
  BY <1>10 DEF BackedUp, GoesOn, ReachedInv, AllReached, Reached, Done, Runs, FirstInv, Asked,
       TypeOK, Swaps, Restarts, fleet, chrome
<1>11. ASSUME NEW c \in Calls, NEW w \in Workers, Clears(c, w) PROVE AllReached'
  BY <1>11 DEF Clears, GoesOn, ReachedInv, AllReached, Reached, Done, Runs, FirstInv, Asked,
       TypeOK, Swaps, Restarts, fleet, chrome
<1>12. ASSUME NEW c \in Calls, NEW w \in Workers, Copied(c, w) PROVE AllReached'
  BY <1>12 DEF Copied, GoesOn, ReachedInv, AllReached, Reached, Done, Runs, FirstInv, Asked,
       TypeOK, Swaps, Restarts, fleet, chrome
<1>13. ASSUME NEW c \in Calls, NEW w \in Workers, Dropped(c, w) PROVE AllReached'
  BY <1>13 DEF Dropped, GoesOn, ReachedInv, AllReached, Reached, Done, Runs, FirstInv, Asked,
       TypeOK, Swaps, Restarts, fleet, chrome
<1>14. ASSUME NEW c \in Calls, NEW w \in Workers, DiskFails(c, w) PROVE AllReached'
  BY <1>14 DEF DiskFails, Fault, Ends, Reply, ReachedInv, AllReached, Reached, Done, Runs,
       FirstInv, Asked, TypeOK, Swaps, Restarts, fleet, disk, chrome
<1>15. ASSUME NEW c \in Calls, NEW w \in Workers, NEW a \in Accounts, Restart(c, w, a)
       PROVE AllReached'
  BY <1>15 DEF Restart, Free, StopsBrowser, Down, ReachedInv, AllReached, Reached, Done, Runs,
       FirstInv, Asked, TypeOK, Swaps, Restarts, fleet, disk, chrome
<1>16. ASSUME NEW c \in Calls, NEW w \in Workers, StartsAgain(c, w) PROVE AllReached'
  <2>1. CASE browser[w][on[c][w]] = "down"
    <3>1. on[c][w] \in Accounts
      BY <1>16 DEF StartsAgain, ReachedInv, FirstInv, TypeOK
    <3>2. Spawn(w, on[c][w])
      BY <1>16, <2>1 DEF StartsAgain
    <3> SUFFICES ASSUME NEW d \in Calls, NEW v \in Workers PROVE Reached(d, v)'
      BY DEF AllReached
    <3>3. Reached(d, v)
      BY DEF ReachedInv, AllReached
    <3>4. v = w => step[d][v] \notin Swaps
      BY <1>16 DEF StartsAgain, Free
    <3>5. step'[d][v] = step[d][v] \/ (step[d][v] = "start" /\ step'[d][v] = "launch")
      <4>1. step[c][w] = "start" /\ step' = [step EXCEPT ![c][w] = "launch"]
        BY <1>16 DEF StartsAgain, GoesOn
      <4>2. step \in [Calls -> [Workers -> {"none", "fetch", "ended"} \cup Swaps \cup Restarts]]
        BY DEF ReachedInv, FirstInv, TypeOK
      <4>3. QED
        BY <4>1, <4>2
    <3>6. UNCHANGED <<pack, restart, left, reply, dir, last>>
      BY <1>16 DEF StartsAgain, GoesOn, fleet, disk
    <3>7. CASE v # w
      BY <3>1, <3>2, <3>3, <3>5, <3>6, <3>7 DEF Spawn, Reached, Done, Runs, Swaps, Restarts,
           ReachedInv, FirstInv, TypeOK
    <3>8. CASE v = w
      <4>1. step[d][w] \in Restarts \/ reply[d][w] = "ok" => pack[d] \in Calls
        BY <3>3, <3>8 DEF Reached, Restarts, ReachedInv, FirstInv, Asked, TypeOK
      <4>2. dir[w] \in Calls => loaded'[w][on[c][w]] = Pending
        BY <3>1, <3>2 DEF Spawn, ReachedInv, FirstInv, TypeOK
      <4>3. /\ browser' = [browser EXCEPT ![w][on[c][w]] = "spawning"]
            /\ missed' = [missed EXCEPT ![w] = @ \ {on[c][w]}]
            /\ \A a \in Accounts \ {on[c][w]} : loaded'[w][a] = loaded[w][a]
        BY <3>1, <3>2 DEF Spawn, ReachedInv, FirstInv, TypeOK
      <4>4. QED
        BY <3>1, <3>3, <3>4, <3>5, <3>6, <3>8, <4>1, <4>2, <4>3 DEF Reached, Done, Runs,
             Swaps, Restarts, ReachedInv, FirstInv, TypeOK
    <3>9. QED
      BY <3>7, <3>8
  <2>2. CASE browser[w][on[c][w]] # "down"
    BY <1>16, <2>2 DEF StartsAgain, GoesOn, ReachedInv, AllReached, Reached, Done, Runs,
         FirstInv, TypeOK, Swaps, Restarts, fleet, disk, chrome
  <2>3. QED
    BY <2>1, <2>2
<1>17. ASSUME NEW c \in Calls, NEW w \in Workers, Restarted(c, w) PROVE AllReached'
  BY <1>17 DEF Restarted, Free, ReachedInv, AllReached, Reached, Done, Runs, FirstInv, Asked,
       TypeOK, Swaps, Restarts, fleet, disk, chrome
<1>18. ASSUME NEW c \in Calls, NEW w \in Workers, Installed(c, w) PROVE AllReached'
  BY <1>18 DEF Installed, Free, Ends, Reply, ReachedInv, AllReached, Reached, Done, Runs,
       FirstInv, Asked, TypeOK, Swaps, Restarts, fleet, disk, chrome
<1>19. ASSUME NEW w \in Workers, NEW a \in Accounts, Starts(w, a) PROVE AllReached'
  BY <1>19 DEF Starts, Free, Spawn, ReachedInv, AllReached, Reached, Done, Runs, FirstInv,
       Asked, TypeOK, Swaps, Restarts, fleet, work, disk
<1>20. ASSUME NEW w \in Workers, NEW a \in Accounts, Stops(w, a) PROVE AllReached'
  BY <1>20 DEF Stops, Free, Down, ReachedInv, AllReached, Reached, Done, Runs, FirstInv,
       Asked, TypeOK, Swaps, Restarts, fleet, work, disk
<1>21. ASSUME NEW w \in Workers, NEW a \in Accounts, BecomesUp(w, a) PROVE AllReached'
  BY <1>21 DEF BecomesUp, Free, ReachedInv, AllReached, Reached, Done, Runs, FirstInv, Asked,
       TypeOK, Swaps, Restarts, fleet, work, disk
<1>22. ASSUME NEW w \in Workers, NEW a \in Accounts, Loads(w, a) PROVE AllReached'
  BY <1>22 DEF Loads, ReachedInv, AllReached, Reached, Done, Runs, FirstInv, Asked, TypeOK,
       Swaps, Restarts, fleet, work, disk
<1>23. ASSUME NEW w \in Workers, NEW a \in Accounts, Dies(w, a) PROVE AllReached'
  <2> SUFFICES ASSUME NEW d \in Calls, NEW v \in Workers PROVE Reached(d, v)'
    BY DEF AllReached
  <2>1. Reached(d, v)
    BY DEF ReachedInv, AllReached
  <2>2. UNCHANGED <<pack, restart, reply, step, left, dir, last>> /\ Down(w, a)
    BY <1>23 DEF Dies, fleet, work, disk
  <2>3. /\ browser' = [browser EXCEPT ![w][a] = "down"]
        /\ \A x \in Workers, b \in Accounts : x # w \/ b # a => loaded'[x][b] = loaded[x][b]
        /\ \A x \in Workers, b \in Accounts : b \notin missed'[x] => b \notin missed[x] \/ (x = w /\ b = a)
    BY <2>2 DEF Down, ReachedInv, FirstInv, TypeOK
  <2>4. /\ browser'[w][a] = "down"
        /\ \A x \in Workers, b \in Accounts : x # w \/ b # a => browser'[x][b] = browser[x][b]
    BY <2>3 DEF ReachedInv, FirstInv, TypeOK
  <2>5. \A b \in Accounts \ missed'[v] :
            \/ v = w /\ b = a
            \/ b \notin missed[v] /\ browser'[v][b] = browser[v][b] /\ loaded'[v][b] = loaded[v][b]
    BY <2>3, <2>4
  <2>6. QED
    BY <2>1, <2>2, <2>4, <2>5 DEF Reached, Done, Runs
<1>24. ASSUME NEW w \in Workers, WorkerCrashes(w) PROVE AllReached'
  BY <1>24 DEF WorkerCrashes, Fault, ReachedInv, AllReached, Reached, Done, Runs, FirstInv,
       Asked, TypeOK, Swaps, Restarts, fleet, disk
<1>25. CASE OrchestratorCrashes
  BY <1>25 DEF OrchestratorCrashes, Fault, ReachedInv, AllReached, Reached, Done, Runs,
       FirstInv, Asked, TypeOK, Swaps, Restarts, work, disk, chrome
<1>26. CASE UNCHANGED vars
  BY <1>26 DEF ReachedInv, AllReached, Reached, Done, Runs, FirstInv, Asked, TypeOK, Swaps,
       Restarts, Copies, vars, fleet, work, disk, chrome
<1>27. QED
  BY <1>1, <1>2, <1>3, <1>4, <1>5, <1>6, <1>7, <1>8, <1>9, <1>10, <1>11, <1>12, <1>13, <1>14,
       <1>15, <1>16, <1>17, <1>18, <1>19, <1>20, <1>21, <1>22, <1>23, <1>24, <1>25, <1>26 DEF
       Next, OrchestratorStep, InstallStep, BrowserStep

IInv == FirstInv /\ Saved /\ AllReached

(* Nothing is uploaded, no disk holds a package and no browser runs. *)
LEMMA InitIInv == Init => IInv
<1> SUFFICES ASSUME Init PROVE IInv
  OBVIOUS
<1> USE NamesAssumption, FaultsAssumption DEF Init, PerCall, PerWorker
<1>1. FirstInv
  BY DEF FirstInv, TypeOK, Asked, RecordedFirst, Copies, Swaps, Restarts
<1>2. Saved
  BY DEF Saved, PackageSurvives
<1>3. AllReached
  BY DEF AllReached, Reached, Swaps, Restarts
<1>4. QED
  BY <1>1, <1>2, <1>3 DEF IInv

(* Invariance: what is recorded, what is whole and what each replacement has *)
(* reached, together inductive (orchestrator/api/main.py:414-495,            *)
(* worker/accounts/manager.py:249-287).                                      *)
THEOREM Invariance == Spec => []IInv
<1>1. IInv /\ [Next]_vars => IInv'
  BY FirstStep, SavedStep, ReachedStep DEF IInv, SavedInv, ReachedInv
<1>2. QED
  BY InitIInv, <1>1, PTL DEF Spec

(* TypeCorrect: the variables keep their types, at most one call replaces   *)
(* the package of a worker, whatever the calls, starts and crashes.          *)
THEOREM TypeCorrect == Spec => []TypeOK
<1>1. IInv => TypeOK
  BY DEF IInv, FirstInv
<1>2. QED
  BY Invariance, <1>1, PTL

(* RecordedFirstHolds: no worker is ahead of GET /extensions/current.        *)
THEOREM RecordedFirstHolds == Spec => []RecordedFirst
<1>1. IInv => RecordedFirst
  BY DEF IInv, FirstInv
<1>2. QED
  BY Invariance, <1>1, PTL

(* PackageSurvivesHolds: a replacement that follows a complete one never     *)
(* leaves a worker without a whole package, wherever it is interrupted.      *)
THEOREM PackageSurvivesHolds == Spec => []PackageSurvives
<1>1. IInv => PackageSurvives
  BY DEF IInv, Saved
<1>2. QED
  BY Invariance, <1>1, PTL

(* OkIsInstalledHolds: a success that a worker answers is true until the     *)
(* next replacement, but for the browsers that were being spawned.           *)
THEOREM OkIsInstalledHolds == Spec => []OkIsInstalled
<1>1. ASSUME IInv PROVE OkIsInstalled
  <2> SUFFICES ASSUME NEW c \in Calls, NEW w \in Workers, reply[c][w] = "ok", last[w] = c
               PROVE  dir[w] = pack[c] /\ (restart[c] => \A a \in Accounts \ missed[w] : Runs(w, a, pack[c]))
    BY DEF OkIsInstalled
  <2>1. Reached(c, w)
    BY <1>1 DEF IInv, AllReached
  <2>2. left[c][w] = {}
    BY <2>1 DEF Reached
  <2>3. QED
    BY <2>1, <2>2 DEF Reached, Done
<1>2. QED
  BY Invariance, <1>1, PTL
=============================================================================
