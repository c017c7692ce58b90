------------------------- MODULE GenerationProofs -------------------------
(***************************************************************************)
(* Proofs about Generation, for any number of jobs, retries and polls.     *)
(* The inductive invariant has four parts: the types; how the point of a   *)
(* job goes with its route and its outcome; which requests of an attempt   *)
(* exist at each point; and what a job that uses the page may find there.  *)
(***************************************************************************)
EXTENDS Generation, TLAPS

(* The requests that Google has executed or may still execute. *)
Used == asked \cup accepted
OfAttempt(j) == {r \in Used : r.job = j /\ r.attempt = retries[j]}

VideoBegun(j) ==
    \E r \in accepted : r.job = j /\ r.attempt = retries[j] /\ r.what = "video"
RouteInv(j) ==
    /\ outcome[j] = "COMPLETED" => At(j, "ended")
    /\ ~At(j, "ended") => retries[j] <= MaxRetries[j]
    /\ At(j, "raw") => Kind(j) = "raw" /\ route[j] = "raw"
    /\ point[j] \in {"project", "upload", "image", "video", "poll"} => route[j] = "bridge"
    /\ point[j] \in {"video", "poll"} => IsVideo(j)
    /\ point[j] \in {"page"} \cup OnPage => route[j] = "page"
    /\ At(j, "poll") => VideoBegun(j)

(* An attempt has no request of the kinds that its next points will send. *)
Fresh(j) ==
    /\ point[j] \in {"waiting", "project", "upload"} => \A r \in OfAttempt(j) : r.what = "page"
    /\ At(j, "image") => \A r \in OfAttempt(j) : r.what # "video"
    /\ point[j] \in {"waiting", "page", "workspace", "fill", "click"} /\ j \notin shared =>
         \A r \in OfAttempt(j) : r.what # "page"
Bounded(r) == r.attempt <= retries[r.job] /\ r.attempt <= MaxRetries[r.job]
Single(r, q) ==
    r.job = q.job /\ r.what = q.what /\ r.attempt = q.attempt =>
        r = q \/ (r.what = "page" /\ r.job \in shared)
RequestInv ==
    /\ \A r \in asked : r.what \in Generating
    /\ \A r \in Used : Bounded(r)
    /\ \A r, q \in Used : Single(r, q)

(* The prompt in the input is that of the job that is about to press the   *)
(* button, and only its own results can come up, unless the page is shared. *)
Pairs ==
    \A j, k \in Jobs : j # k /\ point[j] \in OnPage /\ point[k] \in OnPage => j \in shared
Prompts ==
    /\ \A j \in Jobs : At(j, "click") =>
         page.prompt \in {None, j} \/ (j \in shared /\ page.prompt \in shared)
    /\ page.prompt # None => retries[page.prompt] <= MaxRetries[page.prompt]
Watches ==
    \A j \in Jobs : At(j, "watch") =>
        j \in shared \/ page.links \cup Started \subseteq {j} \cup before[j]
PageInv == Pairs /\ Prompts /\ Watches

IInv ==
    /\ TypeOK
    /\ \A j \in Jobs : RouteInv(j) /\ Fresh(j)
    /\ RequestInv
    /\ PageInv

-----------------------------------------------------------------------------
(* The types. *)

Points == {"waiting", "handling", "ended"} \cup Executing
JobTypes ==
    /\ point \in [Jobs -> Points]
    /\ outcome \in [Jobs -> {None} \cup Final]
    /\ outputs \in [Jobs -> SUBSET (Jobs \cup {Foreign})]

(* A job's own move keeps the types, whatever end it takes. *)
LEMMA FailsTyped ==
    ASSUME JobTypes, NEW j \in Jobs, NEW as \in Final, Fails(j, as)
    PROVE  JobTypes'
BY DEF JobTypes, Fails, Goes, Points

LEMMA CompletesTyped ==
    ASSUME JobTypes, NEW j \in Jobs, NEW urls \in SUBSET (Jobs \cup {Foreign}), Completes(j, urls)
    PROVE  JobTypes'
BY DEF JobTypes, Completes, Goes, Points, Final

LEMMA CompletesWithTyped ==
    ASSUME JobTypes, NEW j \in Jobs, NEW urls \in SUBSET (Jobs \cup {Foreign}),
           CompletesWith(j, urls)
    PROVE  JobTypes'
BY FailsTyped, CompletesTyped DEF CompletesWith, Final

LEMMA NeedsLoginTyped ==
    ASSUME JobTypes, NEW j \in Jobs, NeedsLogin(j)
    PROVE  JobTypes'
BY DEF JobTypes, NeedsLogin, Goes, Points, Final

LEMMA GoesTyped ==
    ASSUME JobTypes, NEW j \in Jobs, NEW p \in Points, Goes(j, p), UNCHANGED <<outcome, outputs>>
    PROVE  JobTypes'
BY DEF JobTypes, Goes

AskTypes == sent \in [Jobs -> Nat] /\ asked \subseteq Requests

LEMMA SendsTyped ==
    ASSUME TypeOK, NEW j \in Jobs, NEW what \in Generating, NEW others \in SUBSET asked,
           Sends(j, what, others)
    PROVE  JobTypes' /\ AskTypes'
<1>1. what \in Points
  BY DEF Points, Executing
<1>2. JobTypes'
  BY <1>1, GoesTyped DEF Sends, TypeOK, JobTypes, Points
<1>3. Request(j, what) \in Requests
  BY DEF Request, Requests, TypeOK
<1>4. AskTypes'
  BY <1>3 DEF Sends, AskTypes, TypeOK
<1> QED BY <1>2, <1>4

LEMMA WithInputTyped ==
    ASSUME TypeOK, NEW j \in Jobs, NEW media \in BOOLEAN, WithInput(j, media)
    PROVE  JobTypes' /\ AskTypes'
<1>1. CASE Sends(j, "video", asked) \/ Sends(j, "image", asked)
  BY <1>1, SendsTyped DEF Generating
<1>2. CASE Fails(j, "FAILED") /\ SendsNothing(asked)
  BY <1>2, FailsTyped DEF SendsNothing, TypeOK, JobTypes, AskTypes, Points, Final
<1> QED BY <1>1, <1>2 DEF WithInput

LEMMA RepliedTyped ==
    ASSUME TypeOK, NEW j \in Jobs, NEW what, NEW others \in SUBSET asked,
           Replied(j, what, others)
    PROVE  JobTypes' /\ AskTypes'
<1> JobTypes
  BY DEF TypeOK, JobTypes, Points
<1>1. SendsNothing(others) => AskTypes'
  BY DEF SendsNothing, TypeOK, AskTypes
<1>2. \A urls \in {{}, {j}} : urls \in SUBSET (Jobs \cup {Foreign})
  OBVIOUS
<1>3. CASE Sends(j, "video", others)
  BY <1>3, SendsTyped DEF Generating
<1>4. CASE Fails(j, "FAILED") /\ SendsNothing(others)
  BY <1>4, <1>1, FailsTyped DEF Final
<1>5. CASE \E urls \in {{}, {j}} : Completes(j, urls) /\ SendsNothing(others)
  BY <1>5, <1>1, <1>2, CompletesTyped
<1>6. CASE \E urls \in {{}, {j}} : CompletesWith(j, urls) /\ SendsNothing(others)
  BY <1>6, <1>1, <1>2, CompletesWithTyped
<1>7. CASE Goes(j, "poll") /\ UNCHANGED <<outcome, outputs>> /\ SendsNothing(others)
  BY <1>7, <1>1, GoesTyped DEF Points, Executing
<1> QED BY <1>3, <1>4, <1>5, <1>6, <1>7 DEF Replied

(* The rest of the state. *)
PageTypes ==
    /\ page \in [auth : BOOLEAN, prompt : Jobs \cup {None}, links : SUBSET (Jobs \cup {Foreign})]
    /\ before \in [Jobs -> SUBSET (Jobs \cup {Foreign})]
    /\ shared \subseteq Jobs /\ moved \subseteq Jobs
CountTypes ==
    /\ type \in [Jobs -> Kinds \X Inputs]
    /\ retries \in [Jobs -> Nat] /\ polls \in [Jobs -> 0..MaxPolls]
    /\ accepted \subseteq Requests
    /\ route \in [Jobs -> {"none", "raw", "bridge", "page"}]

LEMMA TypeParts == TypeOK <=> JobTypes /\ AskTypes /\ PageTypes /\ CountTypes
BY DEF TypeOK, JobTypes, AskTypes, PageTypes, CountTypes, Points

LEMMA ReloadsTyped ==
    ASSUME PageTypes, Reloads
    PROVE  page' \in [auth : BOOLEAN, prompt : Jobs \cup {None},
                      links : SUBSET (Jobs \cup {Foreign})]
BY DEF PageTypes, Reloads

LEMMA TypeStep ==
    ASSUME TypeOK, [Next]_vars
    PROVE  TypeOK'
<1> USE BoundsAssumption, TypeParts
<1> SUFFICES JobTypes' /\ AskTypes' /\ PageTypes' /\ CountTypes'
  BY DEF TypeOK, JobTypes, AskTypes, PageTypes, CountTypes, Points
<1>1. ASSUME NEW j \in Jobs, Start(j)
      PROVE  JobTypes' /\ AskTypes' /\ PageTypes' /\ CountTypes'
  <2>1. PageTypes' /\ CountTypes'
    BY <1>1 DEF Start, PageTypes, CountTypes, Goes
  <2>2. CASE Sends(j, "raw", asked)
    BY <2>1, <2>2, SendsTyped DEF Generating
  <2>3. CASE SendsNothing(asked) /\ UNCHANGED <<outcome, outputs>>
              /\ (Goes(j, "project") \/ Goes(j, "page"))
    BY <2>1, <2>3, GoesTyped DEF SendsNothing, AskTypes, Points, Executing
  <2> QED BY <1>1, <2>2, <2>3 DEF Start
<1>2. ASSUME NEW j \in Jobs, ProjectAnswered(j)
      PROVE  JobTypes' /\ AskTypes' /\ PageTypes' /\ CountTypes'
  <2>1. PageTypes' /\ CountTypes'
    BY <1>2 DEF ProjectAnswered, PageTypes, CountTypes, history
  <2>2. CASE Fails(j, "FAILED") /\ SendsNothing(asked)
    BY <2>1, <2>2, FailsTyped DEF SendsNothing, AskTypes, Final
  <2>3. CASE Goes(j, "upload") /\ SendsNothing(asked) /\ UNCHANGED <<outcome, outputs>>
    BY <2>1, <2>3, GoesTyped DEF SendsNothing, AskTypes, Points, Executing
  <2>4. CASE WithInput(j, Input(j) = "media")
    BY <2>1, <2>4, WithInputTyped
  <2> QED BY <1>2, <2>2, <2>3, <2>4 DEF ProjectAnswered
<1>3. ASSUME NEW j \in Jobs, Uploaded(j)
      PROVE  JobTypes' /\ AskTypes' /\ PageTypes' /\ CountTypes'
  <2>1. PageTypes' /\ CountTypes'
    BY <1>3 DEF Uploaded, PageTypes, CountTypes, history
  <2>2. CASE Fails(j, "FAILED") /\ SendsNothing(asked)
    BY <2>1, <2>2, FailsTyped DEF SendsNothing, AskTypes, Final
  <2>3. CASE WithInput(j, TRUE)
    BY <2>1, <2>3, WithInputTyped
  <2> QED BY <1>3, <2>2, <2>3 DEF Uploaded
<1>4. ASSUME NEW j \in Jobs, SendFails(j) \/ JobTimesOut(j)
      PROVE  JobTypes' /\ AskTypes' /\ PageTypes' /\ CountTypes'
  <2>1. AskTypes' /\ PageTypes' /\ CountTypes'
    BY <1>4 DEF SendFails, JobTimesOut, AskTypes, PageTypes, CountTypes, history, worldVars
  <2>2. JobTypes'
    BY <1>4, FailsTyped DEF SendFails, JobTimesOut, Final
  <2> QED BY <2>1, <2>2
<1>5. ASSUME NEW j \in Jobs, Poll(j)
      PROVE  JobTypes' /\ AskTypes' /\ PageTypes' /\ CountTypes'
  <2>1. AskTypes' /\ PageTypes' /\ CountTypes'
    BY <1>5 DEF Poll, MayPoll, AskTypes, PageTypes, CountTypes, history, worldVars
  <2>2. \A urls \in {{}, {j}} : urls \in SUBSET (Jobs \cup {Foreign})
    OBVIOUS
  <2>3. CASE Completes(j, {j}) \/ \E urls \in {{}, {j}} : CompletesWith(j, urls)
    BY <2>1, <2>2, <2>3, CompletesTyped, CompletesWithTyped
  <2>4. CASE UNCHANGED <<point, outcome, outputs>>
    BY <2>1, <2>4 DEF JobTypes
  <2> QED BY <1>5, <2>3, <2>4 DEF Poll
<1>6. ASSUME NEW j \in Jobs, OpenPage(j)
      PROVE  JobTypes' /\ AskTypes' /\ PageTypes' /\ CountTypes'
  <2>1. AskTypes' /\ CountTypes'
    BY <1>6 DEF OpenPage, AskTypes, CountTypes
  <2>2. PageTypes'
    BY <1>6, ReloadsTyped DEF OpenPage, PageTypes, Shares, OthersOnPage, Moves
  <2>3. JobTypes'
    BY <1>6, FailsTyped, NeedsLoginTyped, GoesTyped
       DEF OpenPage, Final, Points, Executing, OnPage
  <2> QED BY <2>1, <2>2, <2>3
<1>7. ASSUME NEW j \in Jobs, OpenWorkspace(j)
      PROVE  JobTypes' /\ AskTypes' /\ PageTypes' /\ CountTypes'
  <2>1. AskTypes' /\ CountTypes'
    BY <1>7 DEF OpenWorkspace, AskTypes, CountTypes
  <2>0. page' \in [auth : BOOLEAN, prompt : Jobs \cup {None},
                   links : SUBSET (Jobs \cup {Foreign})]
    <3>1. CASE UNCHANGED page
      BY <3>1 DEF PageTypes
    <3>2. ASSUME NEW auth \in {page.auth, TRUE}, NEW links \in {{}, page.links},
                 page' = [auth |-> auth, prompt |-> None, links |-> links]
          PROVE  page' \in [auth : BOOLEAN, prompt : Jobs \cup {None},
                            links : SUBSET (Jobs \cup {Foreign})]
      <4>1. auth \in BOOLEAN /\ links \in SUBSET (Jobs \cup {Foreign})
        BY DEF PageTypes
      <4> QED BY <3>2, <4>1
    <3> QED BY <1>7, <3>1, <3>2 DEF OpenWorkspace
  <2>2. PageTypes'
    BY <1>7, <2>0 DEF OpenWorkspace, PageTypes, Moves
  <2>3. JobTypes'
    BY <1>7, NeedsLoginTyped, GoesTyped DEF OpenWorkspace, Points, Executing, OnPage
  <2> QED BY <2>1, <2>2, <2>3
<1>8. ASSUME NEW j \in Jobs, Fill(j)
      PROVE  JobTypes' /\ AskTypes' /\ PageTypes' /\ CountTypes'
  <2>1. AskTypes' /\ CountTypes'
    BY <1>8 DEF Fill, AskTypes, CountTypes
  <2>2. PageTypes'
    BY <1>8 DEF Fill, PageTypes
  <2>3. JobTypes'
    BY <1>8, FailsTyped, GoesTyped DEF Fill, Final, Points, Executing, OnPage
  <2> QED BY <2>1, <2>2, <2>3
<1>9. ASSUME NEW j \in Jobs, Click(j)
      PROVE  JobTypes' /\ AskTypes' /\ PageTypes' /\ CountTypes'
  <2>1. JobTypes'
    BY <1>9, GoesTyped DEF Click, Points, Executing, OnPage
  <2>2. Started \subseteq Jobs
    BY DEF Started, CountTypes, Requests
  <2>3. CASE UNCHANGED <<page, sent, accepted>>
    BY <1>9, <2>1, <2>2, <2>3 DEF Click, AskTypes, CountTypes, PageTypes
  <2>4. ASSUME NEW k \in Jobs,
               accepted' = accepted \cup {Request(k, "page")},
               sent' = [sent EXCEPT ![k] = @ + 1],
               NEW rest \in {None, k}, page' = [page EXCEPT !.prompt = rest]
        PROVE  AskTypes' /\ PageTypes' /\ CountTypes'
    <3>1. Request(k, "page") \in Requests
      BY DEF Request, Requests, AskTypes, CountTypes
    <3>2. page' \in [auth : BOOLEAN, prompt : Jobs \cup {None},
                     links : SUBSET (Jobs \cup {Foreign})]
      BY <2>4 DEF PageTypes
    <3>3. PageTypes'
      BY <1>9, <2>2, <3>2 DEF Click, PageTypes
    <3>4. AskTypes' /\ CountTypes'
      BY <1>9, <2>4, <3>1 DEF Click, AskTypes, CountTypes
    <3> QED BY <3>3, <3>4
  <2>5. page.prompt # None => page.prompt \in Jobs
    BY DEF PageTypes
  <2> QED BY <1>9, <2>1, <2>3, <2>4, <2>5 DEF Click
<1>10. ASSUME NEW j \in Jobs, Watch(j)
       PROVE  JobTypes' /\ AskTypes' /\ PageTypes' /\ CountTypes'
  <2>1. AskTypes' /\ PageTypes' /\ CountTypes'
    BY <1>10 DEF Watch, AskTypes, PageTypes, CountTypes, worldVars, history
  <2>2. page.links \in SUBSET (Jobs \cup {Foreign})
    BY DEF PageTypes
  <2>3. JobTypes'
    BY <1>10, <2>2, FailsTyped, NeedsLoginTyped, CompletesTyped DEF Watch, Final
  <2> QED BY <2>1, <2>3
<1>11. ASSUME NEW j \in Jobs, HandleFailure(j)
       PROVE  JobTypes' /\ AskTypes' /\ PageTypes' /\ CountTypes'
  <2>1. AskTypes' /\ CountTypes'
    BY <1>11 DEF HandleFailure, AskTypes, CountTypes
  <2>2. PageTypes'
    BY <1>11, ReloadsTyped DEF HandleFailure, PageTypes, OthersOnPage, Moves
  <2>3. JobTypes'
    BY <1>11 DEF HandleFailure, JobTypes, Goes, Points
  <2> QED BY <2>1, <2>2, <2>3
<1>12. ASSUME NEW r \in asked, Executed(r)
       PROVE  JobTypes' /\ AskTypes' /\ PageTypes' /\ CountTypes'
  <2>1. r \in Requests /\ r.job \in Jobs /\ asked \ {r} \in SUBSET asked
    BY DEF AskTypes, Requests
  <2>2. PageTypes' /\ CountTypes'
    BY <1>12, <2>1 DEF Executed, PageTypes, CountTypes, history
  <2>3. CASE SendsNothing(asked \ {r}) /\ UNCHANGED <<point, outcome, outputs>>
    BY <2>2, <2>3 DEF SendsNothing, AskTypes, JobTypes
  <2>4. CASE Replied(r.job, r.what, asked \ {r})
    BY <2>1, <2>2, <2>4, RepliedTyped
  <2>5. CASE Fails(r.job, "FAILED") /\ SendsNothing(asked \ {r})
    BY <2>1, <2>2, <2>5, FailsTyped DEF SendsNothing, AskTypes, Final
  <2> QED BY <1>12, <2>3, <2>4, <2>5 DEF Executed
<1>13. ASSUME NEW k \in Jobs, PageShows(k)
       PROVE  JobTypes' /\ AskTypes' /\ PageTypes' /\ CountTypes'
  BY <1>13 DEF PageShows, jobVars, history, JobTypes, AskTypes, PageTypes, CountTypes
<1>14. CASE SignsOut \/ SignsIn
  BY <1>14 DEF SignsOut, SignsIn, jobVars, history, JobTypes, AskTypes, PageTypes, CountTypes
<1>15. CASE UNCHANGED vars
  BY <1>15 DEF vars, jobVars, worldVars, history, JobTypes, AskTypes, PageTypes, CountTypes
<1> QED
  BY <1>1, <1>2, <1>3, <1>4, <1>5, <1>6, <1>7, <1>8, <1>9, <1>10, <1>11, <1>12,
     <1>13, <1>14, <1>15 DEF Next, Done

-----------------------------------------------------------------------------
(* A step is a step of one job, which leaves the others where they are, or *)
(* one of the world, which leaves all of them.                             *)

JobStep(j) ==
    \/ Start(j) \/ ProjectAnswered(j) \/ Uploaded(j) \/ SendFails(j) \/ Poll(j)
    \/ OpenPage(j) \/ OpenWorkspace(j) \/ Fill(j) \/ Click(j) \/ Watch(j)
    \/ JobTimesOut(j) \/ HandleFailure(j)
    \/ \E r \in asked : r.job = j /\ Executed(r)
WorldStep == (\E k \in Jobs : PageShows(k)) \/ SignsOut \/ SignsIn \/ UNCHANGED vars

LEMMA StepCases ==
    ASSUME TypeOK, [Next]_vars
    PROVE  (\E j \in Jobs : JobStep(j)) \/ WorldStep
BY DEF Next, Done, JobStep, WorldStep, TypeOK, Requests

Still(i) ==
    /\ point'[i] = point[i] /\ outcome'[i] = outcome[i] /\ outputs'[i] = outputs[i]
    /\ retries'[i] = retries[i] /\ route'[i] = route[i]

Fixed(i) == type'[i] = type[i] /\ accepted \subseteq accepted'

(* What WithInput and Replied may do to their job, and to it alone. *)
LEMMA AnswersMove ==
    ASSUME TypeOK, NEW j \in Jobs, NEW what, NEW others, NEW media,
           WithInput(j, media) \/ Replied(j, what, others),
           NEW i \in Jobs, i # j
    PROVE  point'[i] = point[i] /\ outcome'[i] = outcome[i] /\ outputs'[i] = outputs[i]
<1> USE DEF TypeOK
<1>1. CASE WithInput(j, media)
  BY <1>1 DEF WithInput, Sends, Fails, Goes
<1>2. CASE Replied(j, what, others)
  BY <1>2 DEF Replied, Sends, Fails, Goes, Completes, CompletesWith
<1> QED BY <1>1, <1>2

LEMMA OthersStill ==
    ASSUME TypeOK, NEW j \in Jobs, JobStep(j), NEW i \in Jobs, i # j
    PROVE  Still(i) /\ Fixed(i)
<1> USE DEF Still, Fixed
<1> TypeOK
  OBVIOUS
<1>1. CASE Start(j)
  BY <1>1 DEF TypeOK, Start, Goes, Sends
<1>2. CASE ProjectAnswered(j)
  BY <1>2, AnswersMove DEF TypeOK, ProjectAnswered, Goes, Fails, history
<1>3. CASE Uploaded(j)
  BY <1>3, AnswersMove DEF TypeOK, Uploaded, Fails, Goes, history
<1>4. CASE SendFails(j) \/ JobTimesOut(j)
  BY <1>4 DEF TypeOK, SendFails, JobTimesOut, Fails, Goes, history, worldVars
<1>5. CASE Poll(j)
  BY <1>5 DEF TypeOK, Poll, Completes, CompletesWith, Fails, Goes, history, worldVars
<1>6. CASE OpenPage(j)
  BY <1>6 DEF TypeOK, OpenPage, Fails, NeedsLogin, Goes
<1>7. CASE OpenWorkspace(j)
  BY <1>7 DEF TypeOK, OpenWorkspace, NeedsLogin, Goes
<1>8. CASE Fill(j)
  BY <1>8 DEF TypeOK, Fill, Fails, Goes
<1>9. CASE Click(j)
  BY <1>9 DEF TypeOK, Click, Goes
<1>10. CASE Watch(j)
  BY <1>10 DEF TypeOK, Watch, Fails, NeedsLogin, Completes, Goes, history, worldVars
<1>11. CASE HandleFailure(j)
  BY <1>11 DEF TypeOK, HandleFailure, Goes
<1>12. ASSUME NEW r \in asked, r.job = j, Executed(r)
       PROVE  Still(i) /\ Fixed(i)
  <2>1. UNCHANGED <<type, retries, route>> /\ accepted \subseteq accepted'
    BY <1>12 DEF Executed, history
  <2>2. CASE UNCHANGED <<point, outcome, outputs>>
    BY <2>1, <2>2
  <2>3. CASE Replied(j, r.what, asked \ {r})
    BY <2>1, <2>3, AnswersMove
  <2>4. CASE Fails(j, "FAILED")
    BY <2>1, <2>4 DEF Fails, Goes, TypeOK
  <2> QED BY <1>12, <2>2, <2>3, <2>4 DEF Executed
<1> QED
  BY <1>1, <1>2, <1>3, <1>4, <1>5, <1>6, <1>7, <1>8, <1>9, <1>10, <1>11, <1>12 DEF JobStep

LEMMA WorldIsStill ==
    ASSUME TypeOK, WorldStep
    PROVE  /\ UNCHANGED <<jobVars, sent, asked, accepted, route, before, shared>>
           /\ page'.links \subseteq page.links \cup Started
           /\ page'.prompt \in {None, page.prompt}
<1>1. page.prompt = None \/ page.prompt \in Jobs
  BY DEF TypeOK
<1>2. ASSUME NEW k \in Jobs, PageShows(k)
      PROVE  /\ UNCHANGED <<jobVars, sent, asked, accepted, route, before, shared>>
             /\ page'.links \subseteq page.links \cup Started
             /\ page'.prompt \in {None, page.prompt}
  <2>1. page' = [page EXCEPT !.links = @ \cup {k}] /\ k \in Started
    BY <1>2 DEF PageShows
  <2>2. page'.links = page.links \cup {k} /\ page'.prompt = page.prompt
    BY <2>1 DEF TypeOK
  <2> QED BY <1>2, <2>1, <2>2 DEF PageShows, jobVars, history
<1>3. CASE SignsOut
  <2>1. page'.links = {} /\ page'.prompt = page.prompt
    BY <1>3 DEF SignsOut, TypeOK
  <2> QED BY <1>3, <2>1 DEF SignsOut, jobVars
<1>4. CASE SignsIn
  <2>1. page'.links = page.links /\ page'.prompt = None
    BY <1>4 DEF SignsIn, TypeOK
  <2> QED BY <1>4, <2>1 DEF SignsIn, jobVars, history
<1>5. CASE UNCHANGED vars
  BY <1>5 DEF vars, jobVars, worldVars, history
<1> QED BY <1>2, <1>3, <1>4, <1>5 DEF WorldStep

-----------------------------------------------------------------------------
(* Points, routes and outcomes. *)

LEMMA RouteOfStill ==
    ASSUME NEW i \in Jobs, RouteInv(i), Still(i), Fixed(i)
    PROVE  RouteInv(i)'
BY DEF RouteInv, Still, Fixed, At, Kind, IsVideo, VideoBegun

(* Where an attempt goes when it does not succeed. *)
LEMMA RouteOfFailed ==
    ASSUME TypeOK, NEW j \in Jobs, RouteInv(j), ~At(j, "ended"),
           \/ \E as \in {"FAILED", "TIMEOUT"} : Fails(j, as)
           \/ NeedsLogin(j),
           UNCHANGED <<type, retries>>
    PROVE  RouteInv(j)'
BY DEF RouteInv, Fails, NeedsLogin, Goes, At, TypeOK, OnPage, Kind, IsVideo

LEMMA RouteOfCompleted ==
    ASSUME TypeOK, NEW j \in Jobs, RouteInv(j), NEW urls,
           Completes(j, urls) \/ (CompletesWith(j, urls) /\ ~At(j, "ended")),
           UNCHANGED <<type, retries>>
    PROVE  RouteInv(j)'
<1>1. CASE Completes(j, urls)
  <2>1. point'[j] = "ended"
    BY <1>1 DEF Completes, Goes, TypeOK
  <2> QED BY <2>1 DEF RouteInv, At, OnPage
<1>2. CASE Fails(j, "FAILED") /\ ~At(j, "ended")
  BY <1>2, RouteOfFailed
<1> QED BY <1>1, <1>2 DEF CompletesWith

LEMMA RouteOfSent ==
    ASSUME TypeOK, NEW j \in Jobs, RouteInv(j), ~At(j, "ended"), route[j] = "bridge",
           NEW what \in {"image", "video"}, what = "video" => IsVideo(j),
           NEW others, Sends(j, what, others), UNCHANGED <<type, retries, route>>
    PROVE  RouteInv(j)'
BY DEF RouteInv, Sends, Goes, At, TypeOK, OnPage, Kind, IsVideo

LEMMA RouteOfReplied ==
    ASSUME TypeOK, NEW j \in Jobs, RouteInv(j),
           NEW what \in Generating, At(j, what), NEW others,
           what = "video" => VideoBegun(j)', Replied(j, what, others),
           UNCHANGED <<type, retries, route>>
    PROVE  RouteInv(j)'
<1>0. ~At(j, "ended")
  BY DEF At, Generating
<1>1. CASE \E urls \in {{}, {j}} : Completes(j, urls) \/ CompletesWith(j, urls)
  BY <1>0, <1>1, RouteOfCompleted
<1>2. CASE Fails(j, "FAILED")
  BY <1>0, <1>2, RouteOfFailed
<1>3. CASE what = "image" /\ IsVideo(j) /\ Sends(j, "video", others)
  <2>1. route[j] = "bridge"
    BY <1>3 DEF RouteInv, At
  <2> QED BY <1>0, <1>3, <2>1, RouteOfSent
<1>4. CASE what = "video" /\ Goes(j, "poll") /\ UNCHANGED <<outcome, outputs>>
  BY <1>4 DEF RouteInv, Goes, At, TypeOK, OnPage, Kind, IsVideo
<1> QED BY <1>1, <1>2, <1>3, <1>4 DEF Replied

LEMMA RouteOfInput ==
    ASSUME TypeOK, NEW j \in Jobs, RouteInv(j), point[j] \in {"project", "upload"},
           NEW media, WithInput(j, media), UNCHANGED <<type, retries, route>>
    PROVE  RouteInv(j)'
<1>1. ~At(j, "ended") /\ route[j] = "bridge"
  BY DEF At, RouteInv
<1>2. CASE Kind(j) = "image_to_video" /\ Sends(j, "video", asked)
  BY <1>1, <1>2, RouteOfSent DEF IsVideo
<1>3. CASE Fails(j, "FAILED")
  BY <1>1, <1>3, RouteOfFailed
<1>4. CASE Sends(j, "image", asked)
  BY <1>1, <1>4, RouteOfSent
<1> QED BY <1>2, <1>3, <1>4 DEF WithInput

(* A move between two points of one route, before any request is known. *)
LEMMA RouteOfMoved ==
    ASSUME TypeOK, NEW j \in Jobs, RouteInv(j), ~At(j, "ended"), NEW p, Goes(j, p),
           UNCHANGED <<type, retries, outcome>>,
           \/ p = "upload" /\ route'[j] = "bridge"
           \/ p = "project" /\ route'[j] = "bridge"
           \/ p \in {"page"} \cup OnPage /\ route'[j] = "page"
    PROVE  RouteInv(j)'
BY DEF RouteInv, Goes, At, TypeOK, OnPage, Kind, IsVideo

LEMMA RouteStep ==
    ASSUME TypeOK, NEW j \in Jobs, RouteInv(j), JobStep(j)
    PROVE  RouteInv(j)'
<1>1. CASE Start(j)
  <2>1. ~At(j, "ended") /\ UNCHANGED <<type, retries>>
    BY <1>1 DEF Start, At
  <2>2. CASE Kind(j) = "raw" /\ Sends(j, "raw", asked) /\ route' = [route EXCEPT ![j] = "raw"]
    BY <2>1, <2>2 DEF RouteInv, Sends, Goes, At, TypeOK, OnPage, Kind, IsVideo
  <2>3. CASE Goes(j, "project") /\ route' = [route EXCEPT ![j] = "bridge"]
              /\ UNCHANGED <<outcome, outputs>>
    BY <2>1, <2>3, RouteOfMoved DEF TypeOK
  <2>4. CASE Goes(j, "page") /\ route' = [route EXCEPT ![j] = "page"]
              /\ UNCHANGED <<outcome, outputs>>
    BY <2>1, <2>4, RouteOfMoved DEF TypeOK
  <2> QED BY <1>1, <2>2, <2>3, <2>4 DEF Start
<1>2. CASE ProjectAnswered(j)
  <2>1. ~At(j, "ended") /\ UNCHANGED <<type, retries, route>> /\ route[j] = "bridge"
        /\ point[j] \in {"project", "upload"}
    BY <1>2 DEF ProjectAnswered, At, history, RouteInv
  <2>2. CASE Fails(j, "FAILED")
    BY <2>1, <2>2, RouteOfFailed
  <2>3. CASE Goes(j, "upload") /\ UNCHANGED <<outcome, outputs>>
    BY <2>1, <2>3, RouteOfMoved
  <2>4. CASE WithInput(j, Input(j) = "media")
    BY <2>1, <2>4, RouteOfInput
  <2> QED BY <1>2, <2>2, <2>3, <2>4 DEF ProjectAnswered
<1>3. CASE Uploaded(j)
  <2>1. ~At(j, "ended") /\ UNCHANGED <<type, retries, route>>
        /\ point[j] \in {"project", "upload"}
    BY <1>3 DEF Uploaded, At, history
  <2> QED BY <1>3, <2>1, RouteOfFailed, RouteOfInput DEF Uploaded
<1>4. CASE SendFails(j) \/ JobTimesOut(j)
  <2>1. ~At(j, "ended") /\ UNCHANGED <<type, retries>>
    BY <1>4 DEF SendFails, JobTimesOut, At, Generating, Executing, OnPage
  <2> QED BY <1>4, <2>1, RouteOfFailed DEF SendFails, JobTimesOut
<1>5. CASE Poll(j)
  <2>1. ~At(j, "ended") /\ UNCHANGED <<type, retries>>
    BY <1>5 DEF Poll, At
  <2>2. CASE \E urls \in {{}, {j}} : Completes(j, urls) \/ CompletesWith(j, urls)
    BY <2>1, <2>2, RouteOfCompleted
  <2>3. CASE UNCHANGED <<point, outcome, outputs>>
    BY <1>5, <2>3, RouteOfStill DEF Poll, Still, Fixed, worldVars, history
  <2> QED BY <1>5, <2>2, <2>3 DEF Poll
<1>6. CASE OpenPage(j)
  <2>1. ~At(j, "ended") /\ UNCHANGED <<type, retries, route>>
    BY <1>6 DEF OpenPage, At
  <2>0. route[j] = "page"
    BY <1>6 DEF OpenPage, At, RouteInv
  <2>2. CASE Goes(j, "workspace") /\ UNCHANGED <<outcome, outputs>>
    BY <2>0, <2>1, <2>2, RouteOfMoved DEF OnPage
  <2> QED BY <1>6, <2>1, <2>2, RouteOfFailed DEF OpenPage
<1>7. CASE OpenWorkspace(j)
  <2>1. ~At(j, "ended") /\ UNCHANGED <<type, retries, route>>
    BY <1>7 DEF OpenWorkspace, At
  <2>2. route[j] = "page"
    BY <1>7 DEF OpenWorkspace, At, RouteInv, OnPage
  <2> QED BY <1>7, <2>1, <2>2, RouteOfMoved, RouteOfFailed DEF OpenWorkspace, OnPage
<1>8. CASE Fill(j)
  <2>1. ~At(j, "ended") /\ UNCHANGED <<type, retries, route>>
    BY <1>8 DEF Fill, At
  <2>2. route[j] = "page"
    BY <1>8 DEF Fill, At, RouteInv, OnPage
  <2> QED BY <1>8, <2>1, <2>2, RouteOfMoved, RouteOfFailed DEF Fill, OnPage
<1>9. CASE Click(j)
  <2>1. ~At(j, "ended") /\ UNCHANGED <<type, retries, outcome, route>> /\ Goes(j, "watch")
    BY <1>9 DEF Click, At
  <2>2. route[j] = "page"
    BY <1>9 DEF Click, At, RouteInv, OnPage
  <2> QED BY <2>1, <2>2, RouteOfMoved DEF OnPage
<1>10. CASE Watch(j)
  <2>1. ~At(j, "ended") /\ UNCHANGED <<type, retries>>
    BY <1>10 DEF Watch, At
  <2> QED BY <1>10, <2>1, RouteOfCompleted, RouteOfFailed DEF Watch
<1>11. CASE HandleFailure(j)
  <2>1. At(j, "handling") /\ outcome[j] # "COMPLETED"
    BY <1>11 DEF HandleFailure, RouteInv, At
  <2>2. CASE MayRetry(j, retries'[j]) /\ Goes(j, "waiting") /\ outcome' = [outcome EXCEPT ![j] = None]
    <3>1. point'[j] = "waiting" /\ retries'[j] <= MaxRetries[j]
      BY <2>2 DEF MayRetry, Goes, TypeOK
    <3>2. outcome'[j] # "COMPLETED"
      BY <2>2, NamesAssumption DEF TypeOK, Final
    <3> QED BY <3>1, <3>2 DEF RouteInv, At, OnPage
  <2>3. CASE Goes(j, "ended") /\ UNCHANGED outcome
    <3>1. point'[j] = "ended"
      BY <2>3 DEF Goes, TypeOK
    <3> QED BY <2>1, <2>3, <3>1 DEF RouteInv, At, OnPage
  <2> QED BY <1>11, <2>2, <2>3 DEF HandleFailure
<1>12. ASSUME NEW r \in asked, r.job = j, Executed(r)
       PROVE  RouteInv(j)'
  <2>1. UNCHANGED <<type, retries, route>> /\ accepted \subseteq accepted'
    BY <1>12 DEF Executed, history
  <2>2. CASE UNCHANGED <<point, outcome, outputs>>
    BY <2>1, <2>2, RouteOfStill DEF Still, Fixed
  <2>3. ASSUME At(j, r.what), r.attempt = retries[j], NEW reply \in Replies,
               accepted' = IF reply = "ok" THEN accepted \cup {r} ELSE accepted,
               Accepts(r.what, reply), Replied(j, r.what, asked \ {r})
        PROVE  RouteInv(j)'
    <3>1. r.what = "video" => VideoBegun(j)'
      BY <1>12, <2>1, <2>3 DEF Accepts, VideoBegun
    <3>2. r.what \in Generating
      BY <2>3 DEF Replied, Generating
    <3> QED BY <2>1, <2>3, <3>1, <3>2, RouteOfReplied
  <2>4. CASE At(j, r.what) /\ Fails(j, "FAILED")
    <3>1. ~At(j, "ended")
      BY <1>12, <2>4 DEF At, TypeOK, Requests, Generating
    <3> QED BY <2>1, <2>4, <3>1, RouteOfFailed
  <2> QED BY <1>12, <2>2, <2>3, <2>4 DEF Executed
<1> QED
  BY <1>1, <1>2, <1>3, <1>4, <1>5, <1>6, <1>7, <1>8, <1>9, <1>10, <1>11, <1>12 DEF JobStep

-----------------------------------------------------------------------------
(* How a job comes to be COMPLETED. *)

Generated(j) ==
    \E r \in accepted :
        /\ r.job = j /\ r.attempt = retries[j]
        /\ r.what = IF IsVideo(j) THEN "video" ELSE "image"

(* By an answer of the extension: its outputs, and what lies behind them. *)
ByAnswer(j) ==
    /\ outputs'[j] \subseteq {j}
    /\ IsVideo(j) => outputs'[j] # {}
    /\ route[j] = "bridge" => Generated(j)'
ByLinks(j) ==
    /\ At(j, "watch") /\ outputs'[j] = page.links /\ page.links # {}
    /\ UNCHANGED <<shared, before>>

LEMMA CompletedBy ==
    ASSUME TypeOK, NEW j \in Jobs, RouteInv(j), JobStep(j), outcome'[j] = "COMPLETED"
    PROVE  /\ Still(j) \/ ByAnswer(j) \/ ByLinks(j)
           /\ Fixed(j) /\ UNCHANGED <<route, retries>>
<1> DEFINE Goal == /\ Still(j) \/ ByAnswer(j) \/ ByLinks(j)
                   /\ Fixed(j) /\ UNCHANGED <<route, retries>>
<1> SUFFICES Goal
  OBVIOUS
<1>0. ASSUME outcome[j] # "COMPLETED", UNCHANGED outcome PROVE FALSE
  BY <1>0
<1>1. ASSUME \/ \E as \in {"FAILED", "TIMEOUT"} : Fails(j, as)
             \/ NeedsLogin(j)
      PROVE  FALSE
  BY <1>1 DEF Fails, NeedsLogin, TypeOK
<1>2. ASSUME NEW what, NEW others, Sends(j, what, others) PROVE UNCHANGED outcome
  BY <1>2 DEF Sends
<1>3. ~At(j, "ended") => outcome[j] # "COMPLETED"
  BY DEF RouteInv
<1>4. CASE Start(j) \/ ProjectAnswered(j) \/ Uploaded(j)
  BY <1>0, <1>1, <1>2, <1>3, <1>4 DEF Start, ProjectAnswered, Uploaded, WithInput, At
<1>5. CASE SendFails(j) \/ JobTimesOut(j)
  BY <1>1, <1>5 DEF SendFails, JobTimesOut
<1>6. CASE Poll(j)
  <2>1. At(j, "poll") /\ Fixed(j) /\ UNCHANGED <<route, retries, accepted, type>>
    BY <1>6 DEF Poll, Fixed, worldVars, history
  <2>2. outcome[j] # "COMPLETED" /\ VideoBegun(j) /\ IsVideo(j)
    BY <2>1 DEF RouteInv, At
  <2>3. Generated(j)'
    BY <2>1, <2>2 DEF VideoBegun, Generated, IsVideo, Kind
  <2>4. outputs'[j] = {j}
    <3>1. CASE Completes(j, {j})
      BY <3>1 DEF Completes, TypeOK
    <3>2. CASE \E urls \in {{}, {j}} : CompletesWith(j, urls)
      BY <1>1, <3>2 DEF CompletesWith, Completes, TypeOK
    <3>3. CASE UNCHANGED <<point, outcome, outputs>>
      BY <1>0, <2>2, <3>3
    <3> QED BY <1>6, <3>1, <3>2, <3>3 DEF Poll
  <2> QED BY <2>1, <2>3, <2>4 DEF ByAnswer
<1>7. CASE OpenPage(j) \/ OpenWorkspace(j) \/ Fill(j) \/ Click(j)
  BY <1>0, <1>1, <1>3, <1>7 DEF OpenPage, OpenWorkspace, Fill, Click, At
<1>8. CASE Watch(j)
  <2>1. page.links # {} /\ Completes(j, page.links)
    BY <1>1, <1>8 DEF Watch
  <2>2. outputs'[j] = page.links
    BY <2>1 DEF Completes, TypeOK
  <2> QED BY <1>8, <2>1, <2>2 DEF Watch, ByLinks, Fixed, worldVars, history
<1>9. CASE HandleFailure(j)
  <2>1. outcome'[j] \in {outcome[j], None}
    BY <1>9 DEF HandleFailure, TypeOK
  <2> QED BY <1>9, <1>3, <2>1, NamesAssumption DEF HandleFailure, At, Final
<1>10. ASSUME NEW r \in asked, r.job = j, Executed(r)
       PROVE  Goal
  <2>1. Fixed(j) /\ UNCHANGED <<route, retries, type>>
    BY <1>10 DEF Executed, Fixed, history
  <2>2. CASE UNCHANGED <<point, outcome, outputs>>
    BY <2>1, <2>2 DEF Still
  <2>3. ASSUME At(j, r.what), r.attempt = retries[j], NEW reply \in Replies,
               accepted' = IF reply = "ok" THEN accepted \cup {r} ELSE accepted,
               Accepts(r.what, reply), Replied(j, r.what, asked \ {r})
        PROVE  Goal
    <3>1. outcome[j] # "COMPLETED"
      BY <1>3, <2>3 DEF Replied, At
    <3>2. CASE r.what = "raw" \/ (r.what = "image" /\ ~IsVideo(j))
      <4>1. r.what = "raw" => ~IsVideo(j) /\ route[j] = "raw"
        BY <2>3 DEF RouteInv, IsVideo, Kind, At
      <4>2. outputs'[j] \subseteq {j}
        BY <2>3, <3>2, <4>1 DEF Replied, Completes, TypeOK
      <4>3. r.what = "image" => Generated(j)'
        BY <1>10, <2>1, <2>3, <3>2 DEF Accepts, Generated, IsVideo, Kind
      <4> QED BY <2>1, <3>2, <4>1, <4>2, <4>3 DEF ByAnswer
    <3>3. CASE r.what = "image" /\ IsVideo(j)
      BY <1>0, <1>1, <1>2, <2>3, <3>1, <3>3 DEF Replied
    <3>4. CASE r.what = "video"
      <4>1. IsVideo(j)
        BY <2>3, <3>4 DEF RouteInv, At
      <4>2. Generated(j)'
        BY <1>10, <2>1, <2>3, <3>4, <4>1 DEF Accepts, Generated, IsVideo, Kind
      <4>3. \E urls \in {{}, {j}} : CompletesWith(j, urls)
        BY <1>0, <2>3, <3>1, <3>4 DEF Replied
      <4>4. outputs'[j] = {j}
        BY <1>1, <4>3 DEF CompletesWith, Completes, TypeOK
      <4> QED BY <2>1, <4>2, <4>4 DEF ByAnswer
    <3> QED BY <2>3, <3>2, <3>3, <3>4 DEF Replied
  <2>4. CASE Fails(j, "FAILED")
    BY <1>1, <2>4
  <2> QED BY <1>10, <2>2, <2>3, <2>4 DEF Executed
<1> QED
  BY <1>4, <1>5, <1>6, <1>7, <1>8, <1>9, <1>10 DEF JobStep

-----------------------------------------------------------------------------
(* Requests.  A step adds at most one request to those that are used: one  *)
(* of an attempt that has no other of its kind.                            *)

LEMMA RequestsKept ==
    ASSUME TypeOK, TypeOK', RequestInv, Used' \subseteq Used, asked' \subseteq asked,
           shared \subseteq shared', \A i \in Jobs : retries[i] <= retries'[i]
    PROVE  RequestInv'
<1>1. \A r \in Used : r.job \in Jobs /\ r.attempt \in Nat
  BY DEF Used, TypeOK, Requests
<1>2. \A r \in Used : Bounded(r)'
  BY <1>1, BoundsAssumption DEF RequestInv, Bounded, TypeOK
<1>3. \A r, q \in Used : Single(r, q)'
  BY DEF RequestInv, Single
<1> QED BY <1>2, <1>3 DEF RequestInv

LEMMA RequestAdded ==
    ASSUME TypeOK, RequestInv, NEW k \in Jobs, NEW new,
           new.job = k, new.attempt = retries[k],
           Used' \subseteq Used \cup {new},
           \A r \in asked' : r.what \in Generating,
           UNCHANGED retries, shared \subseteq shared',
           retries[k] <= MaxRetries[k],
           \A r \in OfAttempt(k) : r.what = new.what => new.what = "page" /\ k \in shared
    PROVE  RequestInv'
<1>2. \A r \in Used : Bounded(r)'
  BY DEF RequestInv, Bounded
<1>3. Bounded(new)'
  BY BoundsAssumption DEF Bounded, TypeOK
<1>4. \A r, q \in Used : Single(r, q)'
  BY DEF RequestInv, Single
<1>5. \A r \in Used : Single(r, new)' /\ Single(new, r)'
  BY DEF Single, OfAttempt
<1>6. Single(new, new)'
  BY DEF Single
<1>8. \A r \in Used' : Bounded(r)'
  BY <1>2, <1>3
<1>9. \A r, q \in Used' : Single(r, q)'
  BY <1>4, <1>5, <1>6
<1> QED BY <1>8, <1>9 DEF RequestInv

LEMMA FreshOfStill ==
    ASSUME NEW i \in Jobs, Fresh(i), point'[i] = point[i], retries'[i] = retries[i],
           shared \subseteq shared',
           \A r \in Used' : r \in Used \/ r.job # i \/ (r.what = "page" /\ i \in shared)
    PROVE  Fresh(i)'
BY DEF Fresh, OfAttempt, At

(* The points whose job has sent nothing, or nothing on the page. *)
Before == {"waiting", "project", "upload"}
BeforePage == {"waiting", "page", "workspace", "fill", "click"}

LEMMA FreshOfMoved ==
    ASSUME NEW j \in Jobs, Fresh(j), Used' \subseteq Used, retries'[j] = retries[j],
           shared \subseteq shared',
           point'[j] \in Before => point[j] \in Before,
           point'[j] \in BeforePage => point[j] \in BeforePage,
           point'[j] # "image"
    PROVE  Fresh(j)'
BY DEF Fresh, OfAttempt, At, Before, BeforePage

LEMMA FreshOfSent ==
    ASSUME TypeOK, NEW j \in Jobs, NEW what \in Generating, NEW others, Sends(j, what, others),
           what = "image" => \A r \in OfAttempt(j) : r.what = "page",
           Used' \subseteq Used \cup {Request(j, what)}, UNCHANGED retries
    PROVE  Fresh(j)'
<1>1. point'[j] = what
  BY DEF Sends, Goes, TypeOK
<1>2. CASE what = "image"
  <2>1. \A r \in OfAttempt(j)' : r.what # "video"
    BY <1>2 DEF OfAttempt, Request
  <2> QED BY <1>1, <1>2, <2>1 DEF Fresh, At
<1>3. CASE what # "image"
  BY <1>1, <1>3 DEF Fresh, At, Generating
<1> QED BY <1>2, <1>3

AskInv == RequestInv /\ \A i \in Jobs : Fresh(i)

LEMMA AskOfSent ==
    ASSUME TypeOK, AskInv, NEW j \in Jobs, RouteInv(j), ~At(j, "ended"),
           NEW what \in Generating, NEW others \in SUBSET asked, Sends(j, what, others),
           \A r \in OfAttempt(j) : r.what # what,
           what = "image" => \A r \in OfAttempt(j) : r.what = "page",
           accepted' \subseteq Used,
           UNCHANGED <<retries, shared>>,
           \A i \in Jobs \ {j} : point'[i] = point[i]
    PROVE  AskInv'
<1>1. Used' \subseteq Used \cup {Request(j, what)}
  BY DEF Sends, Used
<1>2. \A r \in asked' : r.what \in Generating
  BY DEF Sends, Request, AskInv, RequestInv
<1>3. RequestInv'
  <2>1. PICK new : new = Request(j, what)
    OBVIOUS
  <2>2. new.job = j /\ new.what = what /\ new.attempt = retries[j]
    BY <2>1 DEF Request
  <2> QED BY <1>1, <1>2, <2>1, <2>2, RequestAdded DEF AskInv, RouteInv
<1>4. Fresh(j)'
  BY <1>1, FreshOfSent
<1>5. ASSUME NEW i \in Jobs, i # j PROVE Fresh(i)'
  <2>1. \A r \in Used' : r \in Used \/ r.job # i
    BY <1>1, <1>5 DEF Request
  <2> QED BY <1>5, <2>1, FreshOfStill DEF AskInv
<1> QED BY <1>3, <1>4, <1>5 DEF AskInv

LEMMA AskOfMoved ==
    ASSUME TypeOK, TypeOK', AskInv, NEW j \in Jobs, Used' \subseteq Used, asked' \subseteq asked,
           UNCHANGED retries, shared \subseteq shared',
           \/ UNCHANGED point
           \/ /\ point'[j] \in Before => point[j] \in Before
              /\ point'[j] \in BeforePage => point[j] \in BeforePage
              /\ point'[j] # "image"
              /\ \A i \in Jobs \ {j} : point'[i] = point[i]
    PROVE  AskInv'
<1>1. RequestInv'
  BY RequestsKept DEF AskInv, TypeOK
<1>2. ASSUME NEW i \in Jobs, point'[i] = point[i] PROVE Fresh(i)'
  BY <1>2, FreshOfStill DEF AskInv
<1>3. CASE UNCHANGED point
  BY <1>1, <1>2, <1>3 DEF AskInv
<1>4. CASE /\ point'[j] \in Before => point[j] \in Before
           /\ point'[j] \in BeforePage => point[j] \in BeforePage
           /\ point'[j] # "image"
           /\ \A i \in Jobs \ {j} : point'[i] = point[i]
  <2>1. Fresh(j)'
    BY <1>4, FreshOfMoved DEF AskInv
  <2> QED BY <1>1, <1>2, <1>4, <2>1 DEF AskInv
<1> QED BY <1>3, <1>4

LEMMA AskOfEnded ==
    ASSUME TypeOK, TypeOK', AskInv, NEW j \in Jobs, Used' \subseteq Used, asked' \subseteq asked,
           UNCHANGED retries, shared \subseteq shared',
           NEW p \in Points \ (Before \cup BeforePage \cup {"image"}), Goes(j, p)
    PROVE  AskInv'
<1>1. point'[j] = p /\ \A i \in Jobs \ {j} : point'[i] = point[i]
  BY DEF Goes, TypeOK
<1> QED BY <1>1, AskOfMoved

LEMMA AskOfWithInput ==
    ASSUME TypeOK, TypeOK', AskInv, NEW j \in Jobs, RouteInv(j), point[j] \in {"project", "upload"},
           NEW media, WithInput(j, media), UNCHANGED <<retries, shared, accepted>>
    PROVE  AskInv'
<1>1. \A r \in OfAttempt(j) : r.what = "page"
  BY DEF AskInv, Fresh
<1>2. ASSUME NEW what \in {"video", "image"}, Sends(j, what, asked) PROVE AskInv'
  <2>1. \A i \in Jobs \ {j} : point'[i] = point[i]
    BY <1>2 DEF Sends, Goes, TypeOK
  <2> QED BY <1>1, <1>2, <2>1, AskOfSent DEF Generating, Used, At
<1>3. CASE Fails(j, "FAILED") /\ SendsNothing(asked)
  BY <1>3, AskOfEnded DEF Fails, SendsNothing, Used, Points, Before, BeforePage
<1> QED BY <1>2, <1>3 DEF WithInput

LEMMA AskOfReplied ==
    ASSUME TypeOK, TypeOK', AskInv, NEW j \in Jobs, RouteInv(j),
           NEW what \in Generating, At(j, what), NEW others \in SUBSET asked,
           Replied(j, what, others), UNCHANGED <<retries, shared>>, accepted' \subseteq Used
    PROVE  AskInv'
<1>1. SendsNothing(others) => Used' \subseteq Used /\ asked' \subseteq asked
  BY DEF SendsNothing, Used
<1> USE DEF Points, Before, BeforePage, Executing
<1>2. ASSUME NEW urls, Completes(j, urls), SendsNothing(others) PROVE AskInv'
  BY <1>1, <1>2, AskOfEnded DEF Completes
<1>3. CASE Fails(j, "FAILED") /\ SendsNothing(others)
  BY <1>1, <1>3, AskOfEnded DEF Fails
<1>4. CASE Goes(j, "poll") /\ SendsNothing(others)
  BY <1>1, <1>4, AskOfEnded
<1>5. CASE what = "image" /\ Sends(j, "video", others)
  <2>1. \A i \in Jobs \ {j} : point'[i] = point[i]
    BY <1>5 DEF Sends, Goes, TypeOK
  <2>2. \A r \in OfAttempt(j) : r.what # "video"
    BY <1>5 DEF AskInv, Fresh
  <2> QED BY <1>5, <2>1, <2>2, AskOfSent DEF Generating, At
<1> QED BY <1>2, <1>3, <1>4, <1>5 DEF Replied, CompletesWith

(* The button adds a request of the job whose prompt is in the input. *)
LEMMA AskOfClick ==
    ASSUME TypeOK, AskInv, PageInv, NEW j \in Jobs, RouteInv(j), Click(j)
    PROVE  AskInv'
<1> DEFINE k == page.prompt
<1>1. /\ At(j, "click") /\ point'[j] = "watch" /\ UNCHANGED <<retries, asked, shared>>
      /\ \A i \in Jobs \ {j} : point'[i] = point[i]
  BY DEF Click, Goes, TypeOK
<1>2. Fresh(j)'
  BY <1>1 DEF Fresh, At
<1>3. CASE UNCHANGED accepted
  <2>1. RequestInv'
    BY <1>1, <1>3 DEF AskInv, RequestInv, Used, Bounded, Single
  <2>2. \A i \in Jobs : Fresh(i)'
    BY <1>1, <1>2, <1>3, FreshOfStill DEF AskInv, Used
  <2> QED BY <2>1, <2>2 DEF AskInv
<1>4. CASE k # None /\ accepted' = accepted \cup {Request(k, "page")}
  <2>1. k \in Jobs /\ retries[k] <= MaxRetries[k] /\ (k = j \/ (j \in shared /\ k \in shared))
    BY <1>1, <1>4 DEF PageInv, Prompts, TypeOK
  <2>2. PICK new : new = Request(k, "page")
    OBVIOUS
  <2>3. new.job = k /\ new.what = "page" /\ new.attempt = retries[k]
    BY <2>2 DEF Request
  <2>4. Used' \subseteq Used \cup {new}
    BY <1>1, <1>4, <2>2 DEF Used
  <2>5. k \notin shared => \A r \in OfAttempt(k) : r.what # "page"
    BY <1>1, <2>1 DEF AskInv, Fresh, At
  <2>6. RequestInv'
    <3> HIDE DEF k
    <3>1. \A r \in asked' : r.what \in Generating
      BY <1>1 DEF AskInv, RequestInv
    <3> QED BY <1>1, <2>1, <2>3, <2>4, <2>5, <3>1, RequestAdded DEF AskInv
  <2>7. ASSUME NEW i \in Jobs, i # j PROVE Fresh(i)'
    <3>1. \A r \in Used' : r \in Used \/ r.job # i \/ (r.what = "page" /\ i \in shared)
      BY <2>1, <2>3, <2>4, <2>7
    <3> QED BY <1>1, <2>7, <3>1, FreshOfStill DEF AskInv
  <2> QED BY <1>2, <2>6, <2>7 DEF AskInv
<1> QED BY <1>3, <1>4 DEF Click

(* The next attempt has no requests yet. *)
LEMMA AskOfHandled ==
    ASSUME TypeOK, TypeOK', AskInv, NEW j \in Jobs, HandleFailure(j)
    PROVE  AskInv'
<1>1. /\ UNCHANGED <<asked, accepted>> /\ shared \subseteq shared'
      /\ retries'[j] = retries[j] + 1
      /\ \A i \in Jobs \ {j} : point'[i] = point[i] /\ retries'[i] = retries[i]
  BY DEF HandleFailure, Goes, TypeOK
<1>2. ASSUME NEW i \in Jobs PROVE retries[i] <= retries'[i]
  <2>1. retries[i] \in Nat
    BY DEF TypeOK
  <2> QED BY <1>1, <2>1
<1>3. RequestInv'
  BY <1>1, <1>2, RequestsKept DEF AskInv, Used
<1>4. ASSUME NEW r \in Used, r.job = j PROVE r.attempt # retries'[j]
  <2>1. r.attempt \in Nat /\ r.attempt <= retries[j] /\ retries[j] \in Nat
    BY <1>4 DEF AskInv, RequestInv, Bounded, Used, TypeOK, Requests
  <2> QED BY <1>1, <2>1
<1>5. Fresh(j)'
  BY <1>1, <1>4 DEF Fresh, OfAttempt, Used
<1>6. ASSUME NEW i \in Jobs, i # j PROVE Fresh(i)'
  BY <1>1, <1>6, FreshOfStill DEF AskInv, Used
<1> QED BY <1>3, <1>5, <1>6 DEF AskInv

LEMMA AskStep ==
    ASSUME TypeOK, TypeOK', AskInv, PageInv, NEW j \in Jobs, RouteInv(j), JobStep(j)
    PROVE  AskInv'
<1> USE DEF Points, Before, BeforePage, Executing
<1>1. CASE Start(j)
  <2>1. At(j, "waiting") /\ UNCHANGED <<retries, shared, accepted>>
    BY <1>1 DEF Start
  <2>2. \A i \in Jobs \ {j} : point'[i] = point[i]
    BY <1>1 DEF Start, Sends, Goes, TypeOK
  <2>3. CASE Sends(j, "raw", asked)
    <3>1. \A r \in OfAttempt(j) : r.what = "page"
      BY <2>1 DEF AskInv, Fresh, At
    <3> QED BY <2>1, <2>2, <2>3, <3>1, AskOfSent DEF Generating, Used, At
  <2>4. CASE SendsNothing(asked) /\ (Goes(j, "project") \/ Goes(j, "page"))
    <3>1. point'[j] \in {"project", "page"} /\ point[j] = "waiting"
      BY <2>1, <2>4 DEF Goes, TypeOK, At
    <3>2. UNCHANGED asked
      BY <2>4 DEF SendsNothing
    <3> QED BY <2>1, <2>2, <3>1, <3>2, AskOfMoved DEF Used
  <2> QED BY <1>1, <2>3, <2>4 DEF Start
<1>2. CASE ProjectAnswered(j)
  <2>1. At(j, "project") /\ UNCHANGED <<retries, shared, accepted>>
    BY <1>2 DEF ProjectAnswered, history
  <2>2. CASE Fails(j, "FAILED") /\ SendsNothing(asked)
    <3>1. Goes(j, "handling") /\ UNCHANGED asked
      BY <2>2 DEF Fails, SendsNothing
    <3> QED BY <2>1, <3>1, AskOfEnded DEF Used
  <2>3. CASE Goes(j, "upload") /\ SendsNothing(asked)
    <3>1. point'[j] = "upload" /\ point[j] = "project" /\ \A i \in Jobs \ {j} : point'[i] = point[i]
      BY <2>1, <2>3 DEF Goes, TypeOK, At
    <3>2. UNCHANGED asked
      BY <2>3 DEF SendsNothing
    <3> QED BY <2>1, <3>1, <3>2, AskOfMoved DEF Used
  <2>4. CASE WithInput(j, Input(j) = "media")
    BY <2>1, <2>4, AskOfWithInput DEF At
  <2> QED BY <1>2, <2>2, <2>3, <2>4 DEF ProjectAnswered
<1>3. CASE Uploaded(j)
  <2>1. At(j, "upload") /\ UNCHANGED <<retries, shared, accepted>>
    BY <1>3 DEF Uploaded, history
  <2>2. CASE Fails(j, "FAILED") /\ SendsNothing(asked)
    BY <2>1, <2>2, AskOfEnded DEF Fails, SendsNothing, Used
  <2>3. CASE WithInput(j, TRUE)
    BY <2>1, <2>3, AskOfWithInput DEF At
  <2> QED BY <1>3, <2>2, <2>3 DEF Uploaded
<1>4. CASE SendFails(j) \/ JobTimesOut(j)
  <2>1. UNCHANGED <<retries, shared, accepted, asked>> /\ Goes(j, "handling")
    BY <1>4 DEF SendFails, JobTimesOut, Fails, history, worldVars
  <2> QED BY <2>1, AskOfEnded DEF Used
<1>5. CASE Poll(j)
  <2>1. UNCHANGED <<retries, shared, accepted, asked>>
    BY <1>5 DEF Poll, history, worldVars
  <2>2. Goes(j, "ended") \/ Goes(j, "handling") \/ UNCHANGED point
    BY <1>5 DEF Poll, Completes, CompletesWith, Fails
  <2> QED BY <2>1, <2>2, AskOfEnded, AskOfMoved DEF Used
<1>6. CASE OpenPage(j)
  <2>1. At(j, "page") /\ UNCHANGED <<retries, accepted, asked>> /\ shared \subseteq shared'
    BY <1>6 DEF OpenPage, Shares
  <2>2. Goes(j, "handling") \/ Goes(j, "ended") \/ Goes(j, "workspace")
    BY <1>6 DEF OpenPage, Fails, NeedsLogin
  <2>3. CASE Goes(j, "workspace")
    <3>1. point'[j] = "workspace" /\ \A i \in Jobs \ {j} : point'[i] = point[i]
      BY <2>3 DEF Goes, TypeOK
    <3> QED BY <2>1, <3>1, AskOfMoved DEF Used, At
  <2> QED BY <2>1, <2>2, <2>3, AskOfEnded DEF Used
<1>7. CASE OpenWorkspace(j) \/ Fill(j)
  <2>1. point[j] \in {"workspace", "fill"} /\ UNCHANGED <<retries, accepted, asked, shared>>
    BY <1>7 DEF OpenWorkspace, Fill, At
  <2>2. \E p \in {"handling", "ended", "fill", "click"} : Goes(j, p)
    BY <1>7 DEF OpenWorkspace, Fill, Fails, NeedsLogin
  <2>3. /\ point'[j] \in {"handling", "ended", "fill", "click"}
        /\ \A i \in Jobs \ {j} : point'[i] = point[i]
    BY <2>2 DEF Goes, TypeOK
  <2> QED BY <2>1, <2>3, AskOfMoved DEF Used
<1>8. CASE Click(j)
  BY <1>8, AskOfClick
<1>9. CASE Watch(j)
  <2>1. UNCHANGED <<retries, shared, accepted, asked>>
    BY <1>9 DEF Watch, history, worldVars
  <2>2. Goes(j, "ended") \/ Goes(j, "handling")
    BY <1>9 DEF Watch, Completes, Fails, NeedsLogin
  <2> QED BY <2>1, <2>2, AskOfEnded DEF Used
<1>10. CASE HandleFailure(j)
  BY <1>10, AskOfHandled
<1>11. ASSUME NEW r \in asked, r.job = j, Executed(r)
       PROVE  AskInv'
  <2>1. UNCHANGED <<retries, shared>> /\ accepted' \subseteq Used
    BY <1>11 DEF Executed, history, Used
  <2>2. r.what \in Generating
    BY DEF AskInv, RequestInv
  <2>3. SendsNothing(asked \ {r}) => Used' \subseteq Used /\ asked' \subseteq asked
    BY <2>1 DEF SendsNothing, Used
  <2>4. CASE SendsNothing(asked \ {r}) /\ UNCHANGED point
    BY <2>1, <2>3, <2>4, AskOfMoved
  <2>5. CASE At(j, r.what) /\ Replied(j, r.what, asked \ {r})
    BY <2>1, <2>2, <2>5, AskOfReplied
  <2>6. CASE Fails(j, "FAILED") /\ SendsNothing(asked \ {r})
    BY <2>1, <2>3, <2>6, AskOfEnded DEF Fails
  <2> QED BY <1>11, <2>4, <2>5, <2>6 DEF Executed
<1> QED
  BY <1>1, <1>2, <1>3, <1>4, <1>5, <1>6, <1>7, <1>8, <1>9, <1>10, <1>11 DEF JobStep

LEMMA AskOfWorld ==
    ASSUME TypeOK, AskInv, WorldStep
    PROVE  AskInv'
<1>1. UNCHANGED <<point, retries, asked, accepted, shared>>
  BY WorldIsStill DEF jobVars
<1> QED
  BY <1>1 DEF AskInv, RequestInv, Used, Bounded, Single, Fresh, OfAttempt, At

-----------------------------------------------------------------------------
(* The page. *)

LEMMA PairsKept ==
    ASSUME Pairs, NEW j \in Jobs, \A i \in Jobs \ {j} : point'[i] = point[i],
           point'[j] \in OnPage => point[j] \in OnPage,
           shared \subseteq shared'
    PROVE  Pairs'
BY DEF Pairs

(* What leaves the page as it is, or empties it, disturbs nobody on it. *)
LEMMA PageKept ==
    ASSUME PageInv, NEW j \in Jobs, Pairs',
           \A i \in Jobs \ {j} : point'[i] = point[i] /\ before'[i] = before[i],
           \/ point'[j] \notin {"click", "watch"}
           \/ point'[j] = point[j] /\ before'[j] = before[j],
           shared \subseteq shared',
           page'.prompt \in {None, page.prompt}, page'.links \subseteq page.links,
           Started' \subseteq Started,
           page'.prompt = None \/ UNCHANGED retries
    PROVE  PageInv'
<1>1. Prompts'
  <2>1. ASSUME NEW i \in Jobs, At(i, "click")'
        PROVE  page'.prompt \in {None, i} \/ (i \in shared' /\ page'.prompt \in shared')
    <3>1. At(i, "click")
      BY <2>1 DEF At
    <3> QED BY <3>1 DEF PageInv, Prompts
  <2>2. page'.prompt # None => retries'[page'.prompt] <= MaxRetries[page'.prompt]
    BY DEF PageInv, Prompts
  <2> QED BY <2>1, <2>2 DEF Prompts
<1>2. Watches'
  <2>1. ASSUME NEW i \in Jobs, At(i, "watch")'
        PROVE  i \in shared' \/ page'.links \cup Started' \subseteq {i} \cup before'[i]
    <3>1. At(i, "watch") /\ before'[i] = before[i]
      BY <2>1 DEF At
    <3> QED BY <3>1 DEF PageInv, Watches
  <2> QED BY <2>1 DEF Watches
<1> QED BY <1>1, <1>2 DEF PageInv

(* The steps that do not touch the page. *)
LEMMA PageOfElsewhere ==
    ASSUME PageInv, NEW j \in Jobs, \A i \in Jobs \ {j} : point'[i] = point[i],
           point'[j] \notin OnPage \/ point'[j] = point[j],
           UNCHANGED <<page, before, shared, retries>>, Started' \subseteq Started
    PROVE  PageInv'
<1>1. Pairs'
  BY PairsKept DEF PageInv
<1>2. point'[j] \notin {"click", "watch"} \/ point'[j] = point[j]
  BY DEF OnPage
<1> QED BY <1>1, <1>2, PageKept

LEMMA ReloadsEmpties ==
    ASSUME TypeOK, Reloads
    PROVE  page'.prompt = None /\ page'.links \subseteq page.links
BY DEF Reloads

LEMMA StartedKept ==
    ASSUME AskInv, NEW r \in asked, Executed(r)
    PROVE  Started' = Started
<1>1. r.what # "page"
  BY DEF AskInv, RequestInv, Generating
<1>2. accepted' \in {accepted, accepted \cup {r}}
  BY DEF Executed
<1> QED BY <1>1, <1>2 DEF Started

LEMMA PageOfOpened ==
    ASSUME TypeOK, PageInv, NEW j \in Jobs, OpenPage(j)
    PROVE  PageInv'
<1>1. /\ \A i \in Jobs \ {j} : point'[i] = point[i]
      /\ point'[j] \in {"handling", "ended", "workspace"}
  BY DEF OpenPage, Fails, NeedsLogin, Goes, TypeOK
<1>2. shared' = Shares(j) /\ UNCHANGED <<retries, accepted, before>>
  BY DEF OpenPage
<1>3. Pairs'
  BY <1>1, <1>2 DEF PageInv, Pairs, Shares, OthersOnPage
<1>4. page'.prompt \in {None, page.prompt} /\ page'.links \subseteq page.links
  BY ReloadsEmpties DEF OpenPage
<1>5. Started' = Started /\ shared \subseteq shared'
  BY <1>2 DEF Started, Shares
<1> QED BY <1>1, <1>2, <1>3, <1>4, <1>5, PageKept

LEMMA PageOfFilled ==
    ASSUME TypeOK, PageInv, NEW j \in Jobs, RouteInv(j), Fill(j)
    PROVE  PageInv'
<1>1. /\ At(j, "fill") /\ \A i \in Jobs \ {j} : point'[i] = point[i]
      /\ point'[j] \in {"handling", "click"}
      /\ UNCHANGED <<retries, accepted, before, shared>>
  BY DEF Fill, Fails, Goes, TypeOK
<1>2. Started' = Started
  BY <1>1 DEF Started
<1>3. CASE Fails(j, "FAILED") /\ UNCHANGED page
  <2>1. point'[j] = "handling"
    BY <1>3 DEF Fails, Goes, TypeOK
  <2> QED BY <1>1, <1>2, <1>3, <2>1, PageOfElsewhere DEF OnPage
<1>4. CASE page' = [page EXCEPT !.prompt = j] /\ Goes(j, "click")
  <2>1. page'.prompt = j /\ page'.links = page.links /\ point'[j] = "click"
    BY <1>4 DEF Goes, TypeOK
  <2>2. Pairs'
    BY <1>1, PairsKept DEF PageInv, At, OnPage
  <2>3. \A i \in Jobs \ {j} : At(i, "click") => i \in shared /\ j \in shared
    BY <1>1 DEF PageInv, Pairs, At, OnPage
  <2>4. retries[j] <= MaxRetries[j]
    BY <1>1 DEF RouteInv, At
  <2>5. Prompts'
    BY <1>1, <2>1, <2>3, <2>4 DEF Prompts, At
  <2>6. Watches'
    BY <1>1, <1>2, <2>1 DEF PageInv, Watches, At
  <2> QED BY <2>2, <2>5, <2>6 DEF PageInv
<1> QED BY <1>3, <1>4 DEF Fill

LEMMA PageOfClick ==
    ASSUME TypeOK, PageInv, NEW j \in Jobs, Click(j)
    PROVE  PageInv'
<1>1. /\ At(j, "click") /\ \A i \in Jobs \ {j} : point'[i] = point[i] /\ before'[i] = before[i]
      /\ point'[j] = "watch" /\ UNCHANGED <<retries, shared>>
      /\ before'[j] = page.links \cup Started
  BY DEF Click, Goes, TypeOK
<1>2. Pairs'
  BY <1>1, PairsKept DEF PageInv, At, OnPage
<1> DEFINE Left ==
       /\ page'.prompt \in {None, page.prompt} /\ page'.links = page.links
       /\ Started' = Started \/ (page.prompt # None /\ Started' = Started \cup {page.prompt})
<1>3. Left
  <2>1. CASE UNCHANGED <<page, sent, accepted>>
    BY <2>1 DEF Started
  <2>2. ASSUME page.prompt # None, accepted' = accepted \cup {Request(page.prompt, "page")},
               NEW rest \in {None, page.prompt}, page' = [page EXCEPT !.prompt = rest]
        PROVE  Left
    <3>1. page'.prompt = rest /\ page'.links = page.links
      BY <2>2 DEF TypeOK
    <3>2. PICK new : new = Request(page.prompt, "page")
      OBVIOUS
    <3>3. new.job = page.prompt /\ new.what = "page"
      BY <3>2 DEF Request
    <3>4. Started' = Started \cup {page.prompt}
      BY <2>2, <3>2, <3>3 DEF Started
    <3> QED BY <2>2, <3>1, <3>4
  <2> QED BY <2>1, <2>2 DEF Click
<1>4. Prompts'
  BY <1>1, <1>3 DEF PageInv, Prompts, At
<1>5. j \in shared \/ page'.links \cup Started' \subseteq {j} \cup before'[j]
  BY <1>1, <1>3 DEF PageInv, Prompts
<1>6. \A i \in Jobs \ {j} : At(i, "watch") => i \in shared
  BY <1>1 DEF PageInv, Pairs, At, OnPage
<1>7. Watches'
  BY <1>1, <1>5, <1>6 DEF Watches, At
<1> QED BY <1>2, <1>4, <1>7 DEF PageInv

LEMMA PageStep ==
    ASSUME TypeOK, TypeOK', AskInv, PageInv, NEW j \in Jobs, RouteInv(j), JobStep(j)
    PROVE  PageInv'
<1>1. \A i \in Jobs \ {j} : point'[i] = point[i]
  BY OthersStill DEF Still
<1>2. CASE Start(j) \/ ProjectAnswered(j) \/ Uploaded(j)
  <2>1. UNCHANGED <<page, before, shared, retries, accepted>>
    BY <1>2 DEF Start, ProjectAnswered, Uploaded, history
  <2>2. \E p \in Points \ OnPage : Goes(j, p)
    BY <1>2 DEF Start, ProjectAnswered, Uploaded, WithInput, Sends, Fails, Points, Executing,
                Generating, OnPage
  <2>3. point'[j] \notin OnPage
    BY <2>2 DEF Goes, TypeOK
  <2> QED BY <1>1, <2>1, <2>3, PageOfElsewhere DEF Started
<1>3. CASE SendFails(j) \/ JobTimesOut(j) \/ Poll(j) \/ Watch(j)
  <2>1. UNCHANGED <<page, before, shared, retries, accepted>>
    BY <1>3 DEF SendFails, JobTimesOut, Poll, Watch, history, worldVars
  <2>2. UNCHANGED point \/ \E p \in {"handling", "ended"} : Goes(j, p)
    BY <1>3 DEF SendFails, JobTimesOut, Poll, Watch, Fails, Completes, CompletesWith, NeedsLogin
  <2>3. point'[j] \notin OnPage \/ point'[j] = point[j]
    BY <2>2 DEF Goes, TypeOK, OnPage
  <2> QED BY <1>1, <2>1, <2>3, PageOfElsewhere DEF Started
<1>4. CASE OpenPage(j)
  BY <1>4, PageOfOpened
<1>5. CASE OpenWorkspace(j)
  <2>1. At(j, "workspace") /\ UNCHANGED <<before, shared, retries, accepted>>
    BY <1>5 DEF OpenWorkspace
  <2>2. \E p \in {"fill", "ended"} : Goes(j, p)
    BY <1>5 DEF OpenWorkspace, NeedsLogin
  <2>3. point'[j] \in {"fill", "ended"}
    BY <2>2 DEF Goes, TypeOK
  <2>4. page'.prompt \in {None, page.prompt} /\ page'.links \subseteq page.links
    BY <1>5 DEF OpenWorkspace
  <2>5. Pairs'
    BY <1>1, <2>1, <2>3, PairsKept DEF PageInv, At, OnPage
  <2> QED BY <1>1, <2>1, <2>3, <2>4, <2>5, PageKept DEF Started
<1>6. CASE Fill(j)
  BY <1>6, PageOfFilled
<1>7. CASE Click(j)
  BY <1>7, PageOfClick
<1>8. CASE HandleFailure(j)
  <2>1. At(j, "handling") /\ UNCHANGED accepted /\ shared \subseteq shared' /\ Reloads
    BY <1>8 DEF HandleFailure
  <2>2. Goes(j, "waiting") \/ Goes(j, "ended")
    BY <1>8 DEF HandleFailure
  <2>3. point'[j] \in {"waiting", "ended"}
    BY <2>2 DEF Goes, TypeOK
  <2>4. \A i \in Jobs \ {j} : before'[i] = before[i]
    BY <1>8 DEF HandleFailure, TypeOK
  <2>5. Pairs'
    BY <1>1, <2>1, <2>3, PairsKept DEF PageInv, OnPage
  <2>6. page'.prompt = None /\ page'.links \subseteq page.links
    BY <2>1, ReloadsEmpties
  <2> QED BY <1>1, <2>1, <2>3, <2>4, <2>5, <2>6, PageKept DEF Started
<1>9. ASSUME NEW r \in asked, r.job = j, Executed(r)
      PROVE  PageInv'
  <2>1. UNCHANGED <<page, before, shared, retries>> /\ Started' = Started
    BY <1>9, StartedKept DEF Executed, history
  <2>2. UNCHANGED point \/ \E p \in {"handling", "ended", "poll", "video"} : Goes(j, p)
    BY <1>9 DEF Executed, Replied, Completes, CompletesWith, Fails, Sends
  <2>3. point'[j] \notin OnPage \/ point'[j] = point[j]
    BY <2>2 DEF Goes, TypeOK, OnPage
  <2> QED BY <1>1, <2>1, <2>3, PageOfElsewhere
<1> QED
  BY <1>2, <1>3, <1>4, <1>5, <1>6, <1>7, <1>8, <1>9 DEF JobStep

LEMMA PageOfWorld ==
    ASSUME TypeOK, PageInv, WorldStep
    PROVE  PageInv'
<1>1. /\ UNCHANGED <<point, retries, accepted, before, shared>>
      /\ page'.links \subseteq page.links \cup Started
      /\ page'.prompt \in {None, page.prompt}
  BY WorldIsStill DEF jobVars
<1>2. Started' = Started
  BY <1>1 DEF Started
<1>3. Pairs'
  BY <1>1 DEF PageInv, Pairs
<1>4. Prompts'
  BY <1>1 DEF PageInv, Prompts, At
<1>5. Watches'
  BY <1>1, <1>2 DEF PageInv, Watches, At
<1> QED BY <1>3, <1>4, <1>5 DEF PageInv

-----------------------------------------------------------------------------
(* The inductive invariant. *)

LEMMA InitHolds == Init => IInv
<1> SUFFICES ASSUME Init PROVE IInv
  OBVIOUS
<1> USE DEF Init
<1>1. TypeOK
  <2>1. JobTypes /\ AskTypes
    BY DEF JobTypes, AskTypes, Points
  <2>2. page \in [auth : BOOLEAN, prompt : Jobs \cup {None}, links : SUBSET (Jobs \cup {Foreign})]
    OBVIOUS
  <2>3. PageTypes
    BY <2>2 DEF PageTypes
  <2>4. CountTypes
    BY BoundsAssumption DEF CountTypes
  <2> QED BY <2>1, <2>3, <2>4, TypeParts
<1>2. \A j \in Jobs : RouteInv(j)
  BY BoundsAssumption, NamesAssumption DEF RouteInv, At, OnPage, Final
<1>3. AskInv
  BY DEF AskInv, RequestInv, Fresh, OfAttempt, Used
<1>4. PageInv
  BY DEF PageInv, Pairs, Prompts, Watches, At, OnPage
<1> QED BY <1>1, <1>2, <1>3, <1>4 DEF IInv, AskInv

LEMMA IInvStep ==
    ASSUME IInv, [Next]_vars
    PROVE  IInv'
<1>1. TypeOK /\ TypeOK' /\ AskInv /\ PageInv /\ \A j \in Jobs : RouteInv(j)
  BY TypeStep DEF IInv, AskInv
<1>2. ASSUME NEW j \in Jobs, JobStep(j) PROVE IInv'
  <2>1. \A i \in Jobs : RouteInv(i)'
    BY <1>1, <1>2, RouteStep, OthersStill, RouteOfStill
  <2>2. AskInv' /\ PageInv'
    BY <1>1, <1>2, AskStep, PageStep
  <2> QED BY <1>1, <2>1, <2>2 DEF IInv, AskInv
<1>3. CASE WorldStep
  <2>1. \A i \in Jobs : Still(i) /\ Fixed(i)
    BY <1>1, <1>3, WorldIsStill DEF jobVars, Still, Fixed
  <2>2. \A i \in Jobs : RouteInv(i)'
    BY <1>1, <2>1, RouteOfStill
  <2>3. AskInv' /\ PageInv'
    BY <1>1, <1>3, AskOfWorld, PageOfWorld
  <2> QED BY <1>1, <2>2, <2>3 DEF IInv, AskInv
<1> QED BY <1>1, <1>2, <1>3, StepCases

(* The parts above hold in every state of every instance. *)
THEOREM Invariance == Spec => []IInv
<1>1. Init => IInv
  BY InitHolds
<1>2. IInv /\ [Next]_vars => IInv'
  BY IInvStep
<1> QED BY <1>1, <1>2, PTL DEF Spec

(* Every variable has its type, for any number of jobs. *)
THEOREM TypeCorrect == Spec => []TypeOK
<1>1. IInv => TypeOK
  BY DEF IInv
<1> QED BY <1>1, Invariance, PTL

(* An attempt has Google begin no generation twice, and the attempts are   *)
(* bounded: what a job may cost, whatever is executed late.                *)
THEOREM SpendBoundedHolds == Spec => []SpendBounded
<1>1. IInv => SpendBounded
  BY DEF IInv, RequestInv, Used, Bounded, Single, SpendBounded
<1> QED BY <1>1, Invariance, PTL

(* A job has a step of its own, or it stays as it is. *)
LEMMA OwnStep ==
    ASSUME TypeOK, [Next]_vars, NEW j \in Jobs
    PROVE  JobStep(j) \/ (Still(j) /\ Fixed(j))
<1>1. CASE WorldStep
  BY <1>1, WorldIsStill DEF jobVars, Still, Fixed
<1>2. ASSUME NEW k \in Jobs, JobStep(k) PROVE JobStep(j) \/ (Still(j) /\ Fixed(j))
  BY <1>2, OthersStill
<1> QED BY <1>1, <1>2, StepCases

(* A job that the bridge reports as COMPLETED was generated in that attempt. *)
THEOREM CompletedIsGeneratedHolds == Spec => []CompletedIsGenerated
<1>1. Init => CompletedIsGenerated
  BY NamesAssumption DEF Init, CompletedIsGenerated, Final
<1>2. ASSUME IInv, CompletedIsGenerated, [Next]_vars
      PROVE  CompletedIsGenerated'
  <2> SUFFICES ASSUME NEW j \in Jobs, outcome'[j] = "COMPLETED", route'[j] = "bridge"
               PROVE  Generated(j)'
    BY DEF CompletedIsGenerated, Generated, IsVideo, Kind
  <2>1. TypeOK /\ RouteInv(j)
    BY <1>2 DEF IInv
  <2>2. CASE Still(j) /\ Fixed(j)
    <3>1. Generated(j)
      BY <1>2, <2>2 DEF CompletedIsGenerated, Generated, Still
    <3> QED BY <2>2, <3>1 DEF Generated, Still, Fixed, IsVideo, Kind
  <2>3. CASE JobStep(j)
    <3>1. UNCHANGED route
      BY <2>1, <2>3, CompletedBy
    <3>2. ~ByLinks(j)
      BY <2>1, <3>1 DEF ByLinks, RouteInv, At, OnPage
    <3>3. ByAnswer(j) => Generated(j)'
      BY <3>1 DEF ByAnswer
    <3> QED BY <2>1, <2>2, <2>3, <3>2, <3>3, CompletedBy
  <2> QED BY <1>2, <2>1, <2>2, <2>3, OwnStep
<1> QED BY <1>1, <1>2, Invariance, PTL DEF Spec

(* No route completes a video job without an output. *)
THEOREM VideosHaveOutputsHolds == Spec => []VideosHaveOutputs
<1>1. Init => VideosHaveOutputs
  BY NamesAssumption DEF Init, VideosHaveOutputs, Final
<1>2. ASSUME IInv, VideosHaveOutputs, [Next]_vars
      PROVE  VideosHaveOutputs'
  <2> SUFFICES ASSUME NEW j \in Jobs, outcome'[j] = "COMPLETED", IsVideo(j)'
               PROVE  outputs'[j] # {}
    BY DEF VideosHaveOutputs
  <2>1. TypeOK /\ RouteInv(j)
    BY <1>2 DEF IInv
  <2>2. CASE Still(j) /\ Fixed(j)
    BY <1>2, <2>2 DEF VideosHaveOutputs, Still, Fixed, IsVideo, Kind
  <2>3. CASE JobStep(j)
    <3>1. IsVideo(j)
      BY <2>1, <2>3, CompletedBy DEF Fixed, IsVideo, Kind
    <3> QED BY <2>1, <2>2, <2>3, <3>1, CompletedBy DEF ByAnswer, ByLinks
  <2> QED BY <1>2, <2>1, <2>2, <2>3, OwnStep
<1> QED BY <1>1, <1>2, Invariance, PTL DEF Spec

(* What is known of the page when a job pressed its button is kept. *)
LEMMA HistoryKept ==
    ASSUME TypeOK, [Next]_vars, NEW j \in Jobs, At(j, "ended")
    PROVE  shared \subseteq shared' /\ before'[j] = before[j]
<1>1. CASE WorldStep
  BY <1>1, WorldIsStill
<1>2. ASSUME NEW k \in Jobs, JobStep(k)
      PROVE  shared \subseteq shared' /\ before'[j] = before[j]
  <2>1. CASE Click(k)
    BY <2>1 DEF Click, At, TypeOK
  <2>2. CASE HandleFailure(k)
    BY <2>2 DEF HandleFailure, At, TypeOK
  <2>3. CASE Start(k) \/ ProjectAnswered(k) \/ Uploaded(k) \/ SendFails(k) \/ JobTimesOut(k)
             \/ Poll(k) \/ Watch(k) \/ OpenWorkspace(k) \/ Fill(k)
             \/ \E r \in asked : Executed(r)
    BY <2>3 DEF Start, ProjectAnswered, Uploaded, SendFails, JobTimesOut, Poll, Watch,
                OpenWorkspace, Fill, Executed, history
  <2>4. CASE OpenPage(k)
    BY <2>4 DEF OpenPage, Shares
  <2> QED BY <1>2, <2>1, <2>2, <2>3, <2>4 DEF JobStep
<1> QED BY <1>1, <1>2, StepCases

(* A job that has the page to itself gets its own results or those that    *)
(* the page might already show.                                            *)
THEOREM OutputsAreOwnHolds == Spec => []OutputsAreOwn
<1>1. Init => OutputsAreOwn
  BY NamesAssumption DEF Init, OutputsAreOwn, Final
<1>2. ASSUME IInv, OutputsAreOwn, [Next]_vars
      PROVE  OutputsAreOwn'
  <2> SUFFICES ASSUME NEW j \in Jobs, outcome'[j] = "COMPLETED"
               PROVE  \/ outputs'[j] \subseteq {j}
                      \/ /\ route'[j] = "page"
                         /\ j \in shared' \/ outputs'[j] \subseteq {j} \cup before'[j]
    BY DEF OutputsAreOwn
  <2>1. TypeOK /\ RouteInv(j)
    BY <1>2 DEF IInv
  <2>2. CASE Still(j)
    <3>1. At(j, "ended")
      BY <2>1, <2>2 DEF Still, RouteInv
    <3>2. shared \subseteq shared' /\ before'[j] = before[j]
      BY <1>2, <2>1, <3>1, HistoryKept
    <3> QED BY <1>2, <2>2, <3>2 DEF OutputsAreOwn, Still
  <2>3. CASE ByLinks(j) /\ UNCHANGED route
    <3>1. route'[j] = "page"
      BY <2>1, <2>3 DEF ByLinks, RouteInv, At, OnPage
    <3>2. j \in shared \/ page.links \subseteq {j} \cup before[j]
      BY <1>2, <2>3 DEF IInv, PageInv, Watches, ByLinks
    <3> QED BY <2>3, <3>1, <3>2 DEF ByLinks
  <2>4. CASE JobStep(j)
    BY <2>1, <2>2, <2>3, <2>4, CompletedBy DEF ByAnswer
  <2> QED BY <1>2, <2>1, <2>2, <2>4, OwnStep
<1> QED BY <1>1, <1>2, Invariance, PTL DEF Spec

(* The one place where a prompt can reach a sign-in page is the gap        *)
(* between the look at the page and the typing.                            *)
THEOREM NoPromptOnSignInHolds == Spec => []NoPromptOnSignIn
<1>1. Init => NoPromptOnSignIn
  BY DEF Init, NoPromptOnSignIn, At
<1>2. ASSUME TypeOK, NoPromptOnSignIn, [Next]_vars
      PROVE  NoPromptOnSignIn'
  <2> SUFFICES ASSUME NEW j \in Jobs, point'[j] = "fill", page'.auth PROVE j \in moved'
    BY DEF NoPromptOnSignIn, At
  <2>1. ASSUME point[j] = "fill", page'.auth = page.auth, UNCHANGED moved PROVE j \in moved'
    BY <1>2, <2>1 DEF NoPromptOnSignIn, At
  <2>2. ASSUME NEW k \in Jobs, k # j, point[j] = "fill", moved' = Moves(k) PROVE j \in moved'
    BY <2>2 DEF Moves, At
  <2>3. ASSUME NEW k \in Jobs, JobStep(k) PROVE j \in moved'
    <3>1. k # j => point[j] = "fill"
      BY <1>2, <2>3, OthersStill DEF Still
    <3>2. CASE HandleFailure(k) \/ OpenPage(k)
      <4>1. moved' = Moves(k) /\ \E p \in {"waiting", "ended", "handling", "workspace"} : Goes(k, p)
        BY <3>2 DEF HandleFailure, OpenPage, Fails, NeedsLogin
      <4>2. k # j
        BY <1>2, <4>1 DEF Goes, TypeOK
      <4> QED BY <2>2, <3>1, <4>1, <4>2
    <3>3. CASE OpenWorkspace(k)
      <4>1. moved' = Moves(k) /\ Goes(k, "ended")
        BY <3>3 DEF OpenWorkspace, SignInSeen, NeedsLogin
      <4>2. k # j
        BY <1>2, <4>1 DEF Goes, TypeOK
      <4> QED BY <2>2, <3>1, <4>1, <4>2
    <3>4. CASE Fill(k) \/ Click(k)
      <4>1. UNCHANGED moved /\ \E p \in {"handling", "click", "watch"} : Goes(k, p)
        BY <3>4 DEF Fill, Click, Fails
      <4>2. k # j
        BY <1>2, <4>1 DEF Goes, TypeOK
      <4>3. page'.auth = page.auth
        BY <1>2, <3>4 DEF Fill, Click, TypeOK
      <4> QED BY <2>1, <3>1, <4>1, <4>2, <4>3
    <3>5. CASE \/ Start(k) \/ ProjectAnswered(k) \/ Uploaded(k) \/ SendFails(k)
               \/ JobTimesOut(k) \/ Poll(k) \/ Watch(k)
      <4>1. UNCHANGED <<page, moved>>
        BY <3>5 DEF Start, ProjectAnswered, Uploaded, SendFails, JobTimesOut, Poll, Watch,
                    history, worldVars
      <4>2. \/ UNCHANGED point
            \/ \E p \in Points \ {"fill"} : Goes(k, p)
        BY <3>5 DEF Start, ProjectAnswered, Uploaded, SendFails, JobTimesOut, Poll, Watch,
                    WithInput, Sends, Fails, NeedsLogin, Completes, CompletesWith,
                    Points, Executing, Generating
      <4>3. point[j] = "fill"
        BY <1>2, <3>1, <4>2 DEF Goes, TypeOK
      <4> QED BY <2>1, <4>1, <4>3
    <3>6. ASSUME NEW r \in asked, r.job = k, Executed(r) PROVE j \in moved'
      <4>1. UNCHANGED <<page, moved>>
        BY <3>6 DEF Executed, history
      <4>2. \/ UNCHANGED point
            \/ \E p \in {"handling", "ended", "poll", "video"} : Goes(k, p)
        BY <3>6 DEF Executed, Replied, Completes, CompletesWith, Fails, Sends
      <4>3. point[j] = "fill"
        BY <1>2, <3>1, <4>2 DEF Goes, TypeOK
      <4> QED BY <2>1, <4>1, <4>3
    <3> QED BY <2>3, <3>2, <3>3, <3>4, <3>5, <3>6 DEF JobStep
  <2>4. CASE WorldStep
    <3>1. point[j] = "fill"
      BY <1>2, <2>4, WorldIsStill DEF jobVars
    <3>2. ASSUME NEW k \in Jobs, PageShows(k) PROVE j \in moved'
      <4>1. UNCHANGED moved /\ page'.auth = page.auth
        BY <1>2, <3>2 DEF PageShows, history, TypeOK
      <4> QED BY <2>1, <3>1, <4>1
    <3>3. CASE SignsOut
      BY <3>1, <3>3 DEF SignsOut, At
    <3>4. CASE SignsIn
      <4>1. page'.auth = FALSE
        BY <1>2, <3>4 DEF SignsIn, TypeOK
      <4> QED BY <4>1
    <3>5. CASE UNCHANGED vars
      BY <2>1, <3>1, <3>5 DEF vars, worldVars, history
    <3> QED BY <2>4, <3>2, <3>3, <3>4, <3>5 DEF WorldStep
  <2> QED BY <1>2, <2>3, <2>4, StepCases
<1> QED BY <1>1, <1>2, TypeCorrect, PTL DEF Spec
===========================================================================
