---------------------------- MODULE Generation ----------------------------
(***************************************************************************)
(* What the executor of a worker (worker/queue/executor.py) does for the   *)
(* jobs of one account, from its start to the outcome, with the retries of *)
(* worker/queue/scheduler.py around it.                                    *)
(*                                                                         *)
(* A job takes one of three routes: it hands a request of its caller to    *)
(* the FlowKit extension ("raw"); it has the extension create a project,   *)
(* upload an image, generate an image and a video, and polls for the video *)
(* ("bridge"); or, without the extension, it types its prompt into the     *)
(* Flow page of the browser and waits for links ("page").  All jobs of the *)
(* account share that page.  Google's services and its page are external:  *)
(* a request may be executed, refused, or executed after its sender has    *)
(* given up, and the page may show what it likes.                          *)
(***************************************************************************)
EXTENDS Naturals, FiniteSets

CONSTANTS
    Jobs,        \* jobs on one account
    Types,       \* what each job may ask for: pairs of a kind and an input
    None,
    Foreign,     \* a link on the page that no job has made
    MaxRetries,  \* job.max_retries of each job
    MaxPolls     \* how often a video is polled before the time-out

Kinds == {"text_to_image", "image_to_image", "text_to_video", "image_to_video", "raw"}
Inputs == {"none", "media", "image"}
Final == {"COMPLETED", "FAILED", "TIMEOUT"}

ASSUME TypesAssumption == Types \in [Jobs -> SUBSET (Kinds \X Inputs)]
ASSUME NamesAssumption == None \notin Jobs \cup {Foreign} \cup Final /\ Foreign \notin Jobs
ASSUME BoundsAssumption == MaxRetries \in [Jobs -> Nat] /\ MaxPolls \in Nat \ {0}

VARIABLES
    type,       \* job.generation_type (or a flowkit payload) and the input that is given
    point,      \* where the coroutine of the job is suspended
    outcome,    \* job.state, once it is one of the outcomes
    retries,    \* job.retries
    outputs,    \* job.output_urls: whose results they are
    polls,      \* elapsed of _poll_video_media, in intervals
    page,       \* the Flow page: whether it is a sign-in page, the prompt in its
                \* input, and its links outside of labs.google, by who made them
    sent,       \* how many requests for a generation a job has sent
    asked,      \* those that are not yet executed
    accepted,   \* generations that Google has begun
    \* Auxiliary, never read by a step.
    route,      \* the route of the job's last attempt
    before,     \* whose results the page might show when the job pressed its button
    shared,     \* jobs that used the page while another one did or a recovery reloaded it
    moved       \* jobs whose page became a sign-in page after their last look at it

jobVars == <<type, point, outcome, retries, outputs, polls>>
worldVars == <<page, sent, asked, accepted>>
history == <<route, before, shared, moved>>
vars == <<jobVars, worldVars, history>>

Kind(j) == type[j][1]
Input(j) == type[j][2]
IsVideo(j) == Kind(j) \in {"text_to_video", "image_to_video"}
NeedsInput(j) == Kind(j) \in {"image_to_image", "image_to_video"}

Generating == {"image", "video", "raw"}
OnPage == {"workspace", "fill", "click", "watch"}
Executing == {"project", "upload", "poll", "page"} \cup Generating \cup OnPage

At(j, p) == point[j] = p
Goes(j, p) == point' = [point EXCEPT ![j] = p]

-----------------------------------------------------------------------------
(* The ends of an attempt. *)

Fails(j, as) ==
    /\ Goes(j, "handling")
    /\ outcome' = [outcome EXCEPT ![j] = as]
    /\ UNCHANGED outputs

Completes(j, urls) ==
    /\ Goes(j, "ended")
    /\ outcome' = [outcome EXCEPT ![j] = "COMPLETED"]
    /\ outputs' = [outputs EXCEPT ![j] = urls]

(* Mutant of CompletesWith: a video without a playable URL is no error. *)
CompletesWithAny(j, urls) == Completes(j, urls)
CompletesWith(j, urls) == IF urls = {} THEN Fails(j, "FAILED") ELSE Completes(j, urls)

(* LoginRequiredError: no recovery and no retry. *)
NeedsLogin(j) ==
    /\ Goes(j, "ended")
    /\ outcome' = [outcome EXCEPT ![j] = "FAILED"]
    /\ UNCHANGED outputs

(* Mutant of MayRetry: retries are counted from 1. *)
MayRetryOnceMore(j, n) == n <= MaxRetries[j] + 1
MayRetry(j, n) == n <= MaxRetries[j]

(* A reload, or the browser's restart, empties the input; Flow may then    *)
(* show the results again, or the start page, or a sign-in page.           *)
Reloads == \E auth \in BOOLEAN, links \in {{}, page.links} :
    page' = [auth |-> auth, prompt |-> None, links |-> links]

Moves(j) == {k \in Jobs \ {j} : k \in moved \/ (At(k, "fill") /\ page'.auth)}
OthersOnPage(j) == {k \in Jobs \ {j} : point[k] \in OnPage}

(* _handle_failure: recover_account works on the page, then the job is    *)
(* requeued or has its outcome.                                           *)
HandleFailure(j) ==
    /\ At(j, "handling")
    /\ Reloads
    /\ retries' = [retries EXCEPT ![j] = @ + 1]
    /\ IF MayRetry(j, retries'[j])
       THEN Goes(j, "waiting") /\ outcome' = [outcome EXCEPT ![j] = None]
       ELSE Goes(j, "ended") /\ UNCHANGED outcome
    /\ before' = [before EXCEPT ![j] = {}]
    /\ shared' = shared \cup OthersOnPage(j)
    /\ moved' = Moves(j)
    /\ UNCHANGED <<type, outputs, polls, sent, asked, accepted, route>>

(* asyncio.wait_for cancels the executor after job_timeout_seconds. *)
JobTimesOut(j) ==
    /\ point[j] \in Executing
    /\ Fails(j, "TIMEOUT")
    /\ UNCHANGED <<type, retries, polls, worldVars, history>>

-----------------------------------------------------------------------------
(* The extension's routes. *)

Request(j, what) == [job |-> j, what |-> what, attempt |-> retries[j], number |-> sent[j]]
Sends(j, what, others) ==
    /\ Goes(j, what)
    /\ asked' = others \cup {Request(j, what)} /\ sent' = [sent EXCEPT ![j] = @ + 1]
    /\ UNCHANGED <<outcome, outputs>>
SendsNothing(others) == asked' = others /\ UNCHANGED sent

Start(j) ==
    /\ At(j, "waiting")
    /\ \/ /\ Kind(j) = "raw" /\ Sends(j, "raw", asked)
          /\ route' = [route EXCEPT ![j] = "raw"]
       \/ /\ Kind(j) # "raw" /\ SendsNothing(asked)
          /\ \/ Goes(j, "project") /\ route' = [route EXCEPT ![j] = "bridge"]
             \/ Goes(j, "page") /\ route' = [route EXCEPT ![j] = "page"]
          /\ UNCHANGED <<outcome, outputs>>
    /\ polls' = [polls EXCEPT ![j] = 0]
    /\ UNCHANGED <<type, retries, page, accepted, before, shared, moved>>

(* What follows when it is known whether the caller has given an image. *)
WithInput(j, media) ==
    IF Kind(j) = "image_to_video" /\ media THEN Sends(j, "video", asked)
    ELSE IF NeedsInput(j) /\ ~media THEN Fails(j, "FAILED") /\ SendsNothing(asked)
    ELSE Sends(j, "image", asked)

(* The project is created, and the image of the caller is read if it has  *)
(* to be uploaded.                                                        *)
ProjectAnswered(j) ==
    /\ At(j, "project")
    /\ \/ Fails(j, "FAILED") /\ SendsNothing(asked)
       \/ /\ NeedsInput(j) /\ Input(j) = "image"
          /\ Goes(j, "upload") /\ SendsNothing(asked) /\ UNCHANGED <<outcome, outputs>>
       \/ /\ ~(NeedsInput(j) /\ Input(j) = "image")
          /\ WithInput(j, Input(j) = "media")
    /\ UNCHANGED <<type, retries, polls, page, accepted, history>>

Uploaded(j) ==
    /\ At(j, "upload")
    /\ \/ Fails(j, "FAILED") /\ SendsNothing(asked)
       \/ WithInput(j, TRUE)
    /\ UNCHANGED <<type, retries, polls, page, accepted, history>>

(* A refusal comes as a status of 400 or more, which only the raw route   *)
(* takes for a result, or as an error of the extension.                   *)
Replies == {"ok", "status", "error"}

(* Mutant of Accepts: no route looks at the status. *)
AcceptsStatus(what, reply) == reply # "error"
Accepts(what, reply) == reply = "ok" \/ (what = "raw" /\ reply = "status")

(* An accepted image names URLs and a media id, or not; the answer for a  *)
(* video holds the video, or an id to poll it by, or neither.             *)
Replied(j, what, others) ==
    \/ /\ what = "raw" \/ (what = "image" /\ ~IsVideo(j))
       /\ \E urls \in {{}, {j}} : Completes(j, urls)
       /\ SendsNothing(others)
    \/ /\ what = "image" /\ IsVideo(j)
       /\ \/ Sends(j, "video", others)
          \/ Fails(j, "FAILED") /\ SendsNothing(others)
    \/ /\ what = "video" /\ SendsNothing(others)
       /\ \/ \E urls \in {{}, {j}} : CompletesWith(j, urls)
          \/ Goes(j, "poll") /\ UNCHANGED <<outcome, outputs>>

(* A request is executed or refused.  Its reply finds its sender, or it is *)
(* lost, or the sender has given up.                                       *)
Executed(r) ==
    /\ \E reply \in Replies :
        /\ accepted' = IF reply = "ok" THEN accepted \cup {r} ELSE accepted
        /\ \/ SendsNothing(asked \ {r}) /\ UNCHANGED <<point, outcome, outputs>>
           \/ /\ At(r.job, r.what) /\ r.attempt = retries[r.job]
              /\ IF Accepts(r.what, reply) THEN Replied(r.job, r.what, asked \ {r})
                 ELSE Fails(r.job, "FAILED") /\ SendsNothing(asked \ {r})
    /\ UNCHANGED <<type, retries, polls, page, history>>

(* send returns an error: its time-out, or no connection. *)
SendFails(j) ==
    /\ point[j] \in Generating
    /\ Fails(j, "FAILED")
    /\ UNCHANGED <<type, retries, polls, worldVars, history>>

(* Mutant of MayPoll: elapsed <= timeout. *)
MayPollOnceMore(n) == n <= MaxPolls
MayPoll(n) == n < MaxPolls

(* Failed polls count like empty ones.  At the time-out the last answer,  *)
(* refused as it was, is searched for a URL once more.                    *)
Poll(j) ==
    /\ At(j, "poll")
    /\ \/ /\ MayPoll(polls[j]) /\ polls' = [polls EXCEPT ![j] = @ + 1]
          /\ Completes(j, {j}) \/ UNCHANGED <<point, outcome, outputs>>
       \/ /\ ~MayPoll(polls[j])
          /\ \E urls \in {{}, {j}} : CompletesWith(j, urls)
          /\ UNCHANGED polls
    /\ UNCHANGED <<type, retries, worldVars, history>>

-----------------------------------------------------------------------------
(* The route over the Flow page. *)

Shares(j) == IF OthersOnPage(j) = {} THEN shared ELSE shared \cup {j} \cup OthersOnPage(j)

(* Mutant of SignInSeen: LoginRequiredError stays swallowed. *)
SignInUnseen(p) == FALSE
SignInSeen(p) == p.auth

(* An account without a context is recovered; then there is a page, or not. *)
OpenPage(j) ==
    /\ At(j, "page")
    /\ Reloads \/ UNCHANGED page
    /\ \/ Fails(j, "FAILED")
       \/ page'.auth /\ NeedsLogin(j)
       \/ ~page'.auth /\ Goes(j, "workspace") /\ UNCHANGED <<outcome, outputs>>
    /\ shared' = Shares(j) /\ moved' = Moves(j)
    /\ UNCHANGED <<type, retries, polls, sent, asked, accepted, route, before>>

(* Without a visible input its buttons open a project, or lead to a       *)
(* sign-in page, whose LoginRequiredError the loop over them swallows.    *)
OpenWorkspace(j) ==
    /\ At(j, "workspace")
    /\ \/ UNCHANGED page
       \/ \E auth \in {page.auth, TRUE}, links \in {{}, page.links} :
            page' = [auth |-> auth, prompt |-> None, links |-> links]
    /\ IF SignInSeen(page') THEN NeedsLogin(j)
       ELSE Goes(j, "fill") /\ UNCHANGED <<outcome, outputs>>
    /\ moved' = Moves(j)
    /\ UNCHANGED <<type, retries, polls, sent, asked, accepted, route, before, shared>>

(* Mutant of Fill: the input is expected to be empty. *)
FillIfEmpty(j) ==
    /\ At(j, "fill")
    /\ \/ Fails(j, "FAILED") /\ UNCHANGED page
       \/ /\ page' = IF page.prompt = None THEN [page EXCEPT !.prompt = j] ELSE page
          /\ Goes(j, "click") /\ UNCHANGED <<outcome, outputs>>
    /\ UNCHANGED <<type, retries, polls, sent, asked, accepted,
                   route, before, shared, moved>>
Fill(j) ==
    /\ At(j, "fill")
    /\ \/ Fails(j, "FAILED") /\ UNCHANGED page
       \/ /\ page' = [page EXCEPT !.prompt = j]
          /\ Goes(j, "click") /\ UNCHANGED <<outcome, outputs>>
    /\ UNCHANGED <<type, retries, polls, sent, asked, accepted,
                   route, before, shared, moved>>

(* The jobs whose prompt the page has submitted. *)
Started == {r.job : r \in {q \in accepted : q.what = "page"}}

(* The button, or Control+Enter, submits what is in the input now. *)
Click(j) ==
    /\ At(j, "click")
    /\ before' = [before EXCEPT ![j] = page.links \cup Started]
    /\ LET k == page.prompt IN
       \/ UNCHANGED <<page, sent, accepted>>
       \/ /\ k # None /\ ~page.auth
          /\ accepted' = accepted \cup {Request(k, "page")}
          /\ sent' = [sent EXCEPT ![k] = @ + 1]
          /\ \E rest \in {None, k} : page' = [page EXCEPT !.prompt = rest]
    /\ Goes(j, "watch")
    /\ UNCHANGED <<type, outcome, retries, outputs, polls, asked,
                   route, shared, moved>>

(* _wait_for_outputs takes every link that leads out of labs.google. *)
Watch(j) ==
    /\ At(j, "watch")
    /\ IF page.auth THEN NeedsLogin(j)
       ELSE \/ page.links # {} /\ Completes(j, page.links)
            \/ Fails(j, "FAILED")
    /\ UNCHANGED <<type, retries, polls, worldVars, history>>

-----------------------------------------------------------------------------
(* What Google, the account and the extension do by themselves. *)

PageShows(k) ==
    /\ k \in Started /\ k \notin page.links /\ ~page.auth
    /\ page' = [page EXCEPT !.links = @ \cup {k}]
    /\ UNCHANGED <<jobVars, sent, asked, accepted, history>>

SignsOut ==
    /\ ~page.auth /\ page' = [page EXCEPT !.auth = TRUE, !.links = {}]
    /\ moved' = moved \cup {j \in Jobs : At(j, "fill")}
    /\ UNCHANGED <<jobVars, sent, asked, accepted, route, before, shared>>

SignsIn ==
    /\ page.auth /\ page' = [page EXCEPT !.auth = FALSE, !.prompt = None]
    /\ UNCHANGED <<jobVars, sent, asked, accepted, history>>

Done == (\A j \in Jobs : At(j, "ended")) /\ UNCHANGED vars

Init ==
    /\ type \in [Jobs -> Kinds \X Inputs] /\ \A j \in Jobs : type[j] \in Types[j]
    /\ point = [j \in Jobs |-> "waiting"] /\ outcome = [j \in Jobs |-> None]
    /\ retries = [j \in Jobs |-> 0] /\ polls = [j \in Jobs |-> 0]
    /\ outputs = [j \in Jobs |-> {}]
    /\ page \in [auth : {FALSE}, prompt : {None}, links : {{}, {Foreign}}]
    /\ sent = [j \in Jobs |-> 0] /\ asked = {} /\ accepted = {}
    /\ route = [j \in Jobs |-> "none"] /\ before = [j \in Jobs |-> {}]
    /\ shared = {} /\ moved = {}

Next ==
    \/ \E j \in Jobs :
        \/ Start(j) \/ ProjectAnswered(j) \/ Uploaded(j) \/ SendFails(j) \/ Poll(j)
        \/ OpenPage(j) \/ OpenWorkspace(j) \/ Fill(j) \/ Click(j) \/ Watch(j)
        \/ JobTimesOut(j) \/ HandleFailure(j) \/ PageShows(j)
    \/ \E r \in asked : Executed(r)
    \/ SignsOut \/ SignsIn \/ Done

Spec == Init /\ [][Next]_vars

-----------------------------------------------------------------------------
Requests == [job : Jobs, what : Generating \cup {"page"}, attempt : Nat, number : Nat]

(* Every variable has its type. *)
TypeOK ==
    /\ type \in [Jobs -> Kinds \X Inputs]
    /\ point \in [Jobs -> {"waiting", "handling", "ended"} \cup Executing]
    /\ outcome \in [Jobs -> {None} \cup Final]
    /\ retries \in [Jobs -> Nat] /\ polls \in [Jobs -> 0..MaxPolls]
    /\ outputs \in [Jobs -> SUBSET (Jobs \cup {Foreign})]
    /\ page \in [auth : BOOLEAN, prompt : Jobs \cup {None},
                 links : SUBSET (Jobs \cup {Foreign})]
    /\ sent \in [Jobs -> Nat] /\ asked \subseteq Requests /\ accepted \subseteq Requests
    /\ route \in [Jobs -> {"none", "raw", "bridge", "page"}]
    /\ before \in [Jobs -> SUBSET (Jobs \cup {Foreign})]
    /\ shared \subseteq Jobs /\ moved \subseteq Jobs

(* Google begins no generation twice in an attempt and none after the     *)
(* last one, however many requests are executed after their sender gave   *)
(* up; only jobs that shared the page may have submitted a prompt twice.  *)
SpendBounded == \A r, q \in accepted :
    /\ r.attempt <= MaxRetries[r.job]
    /\ r # q /\ r.job = q.job /\ r.what = q.what =>
        r.attempt # q.attempt \/ (r.what = "page" /\ r.job \in shared)

(* A job that the bridge has COMPLETED was generated: Google has accepted *)
(* its last request in the attempt that counts, no earlier one.           *)
CompletedIsGenerated == \A j \in Jobs :
    outcome[j] = "COMPLETED" /\ route[j] = "bridge" =>
        \E r \in accepted :
            /\ r.job = j /\ r.attempt = retries[j]
            /\ r.what = IF IsVideo(j) THEN "video" ELSE "image"

(* A video job that is COMPLETED has a URL of its video. *)
VideosHaveOutputs == \A j \in Jobs :
    outcome[j] = "COMPLETED" /\ IsVideo(j) => outputs[j] # {}

(* A job gets the results of another one, or links that nobody generated, *)
(* only if the page showed or awaited them when the prompt was submitted, *)
(* or if the page was not the job's alone.                                *)
OutputsAreOwn == \A j \in Jobs :
    outcome[j] = "COMPLETED" =>
        \/ outputs[j] \subseteq {j}
        \/ route[j] = "page" /\ (j \in shared \/ outputs[j] \subseteq {j} \cup before[j])

(* No prompt is typed into a sign-in page but into one that has come up   *)
(* after the last look at the page.                                       *)
NoPromptOnSignIn == \A j \in Jobs : At(j, "fill") /\ page.auth => j \in moved
=============================================================================
