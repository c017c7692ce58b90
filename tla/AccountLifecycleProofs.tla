---------------------- MODULE AccountLifecycleProofs ----------------------
(***************************************************************************)
(* Proofs about AccountLifecycle, for any number of coroutines, Account    *)
(* objects, process ids, attempts, begun calls and failures.               *)
(*                                                                         *)
(* What a coroutine still has to do is a sequence, which grows by a whole  *)
(* operation when one calls another.  No proof unfolds these sequences:    *)
(* each step of a program has a rank, and in every todo[c] the ranks       *)
(* ascend.  So the set of what is left says in which order it will be      *)
(* done, and the head is the element of least rank.  The lemmas of the     *)
(* first half show that every action keeps this order and give, for each   *)
(* action, the set that it leaves; the invariants are then proved from     *)
(* these sets alone.                                                       *)
(***************************************************************************)
EXTENDS AccountLifecycle, SequenceTheorems, TLAPS

(* The order in which steps are done. *)
Rank(name) ==
    CASE name = "broken" -> 0 [] name = "terminate" -> 1 [] name = "close" -> 2
      [] name = "list" -> 3 [] name = "end" -> 4 [] name = "kill" -> 5 [] name = "clear" -> 6
      [] name = "unserve" -> 7 [] name = "drain" -> 8 [] name = "serve" -> 9
      [] name = "spawn" -> 10 [] name = "pause" -> 11 [] name = "soft" -> 12
      [] name = "connect" -> 13 [] name = "visit" -> 14 [] name = "open" -> 15
      [] name = "tried" -> 16 [] name = "ready" -> 17 [] name = "stopped" -> 18
      [] name = "others" -> 20 [] name = "stop" -> 21 [] name = "start" -> 22
      [] name = "assigned" -> 23 [] name = "ensure" -> 24 [] name = "started" -> 25
      [] name = "work" -> 26 [] name = "failed" -> 27 [] name = "recover" -> 28
      [] name = "generate" -> 29 [] name = "finished" -> 30 [] name = "requeue" -> 31
      [] name = "booted" -> 32 [] name = "proxy" -> 33 [] name = "settings" -> 34
      [] name = "install" -> 35 [] OTHER -> 36

(* Repeated are only the steps of one loop, and the end of a start that a *)
(* recovery called.                                                       *)
Before(a, b) ==
    \/ Rank(a[1]) < Rank(b[1])
    \/ a[1] = b[1] /\ a[1] \in {"kill", "ready"}
    \/ a[1] = "spawn" /\ b[1] = "spawn" /\ a[2] # b[2]

Ordered(t) == \A i, j \in DOMAIN t : i < j => Before(t[i], t[j])

(* The steps of AccountRuntime.terminate. *)
Clearing == {"terminate", "close", "list", "end", "kill", "clear"}

(* What is left to a call, and the names of it. *)
Left(c) == Range(todo[c])
Names(L) == {a[1] : a \in L}
Ops(c) == Names(Left(c))
AllSpawned(c) == <<"spawn", "chrome">> \notin Left(c)
NoneOf(c, names) == Ops(c) \cap names = {}

(* Which steps can be left together.  s: the Chrome of the launch that is *)
(* left has been spawned.                                                 *)
Without(O, names) == O \cap names = {}
Shape(O, s) ==
    /\ "terminate" \in O => Without(O, {"close", "list", "end", "kill", "clear"})
    /\ "close" \in O => "list" \in O
    /\ "list" \in O => Without(O, {"end", "kill", "clear"})
    /\ "kill" \in O \/ "end" \in O => "clear" \in O
    /\ "unserve" \in O => "drain" \notin O
    /\ "serve" \in O => "open" \in O /\ ("unserve" \in O \/ Without(O, Clearing))
    /\ "stopped" \in O => Without(O, {"spawn", "soft", "tried"})
    /\ "open" \in O => /\ s \/ \A n \in O : Rank(n) >= Rank("spawn")
                       /\ "connect" \in O \/ \A n \in O : Rank(n) >= Rank("connect")
                       /\ Without(O, {"soft", "tried", "visit", "pause"})
    /\ "soft" \in O => Without(O, {"connect", "visit", "tried"})
    /\ "visit" \in O => "tried" \in O
    /\ "work" \in O => "finished" \in O /\ Without(O, {"failed", "recover", "generate"})
    /\ "generate" \in O => "finished" \in O
    /\ "remove" \in O => /\ O \subseteq Clearing \cup {"stop", "unserve", "drain", "stopped", "remove"}
                         /\ "stopped" \in O \/ Without(O, {"unserve", "drain"})
    /\ "booted" \in O => Without(O, {"assigned", "install", "work", "generate", "others"})
    /\ "requeue" \in O => Without(O, {"stop", "ensure", "proxy", "settings", "install"})

Form == \A c \in Calls : Ordered(todo[c]) /\ Shape(Ops(c), ~AllSpawned(c))

(* One coroutine runs at most; the others are suspended at an await. *)
OneRuns == \A c, d \in Calls : ~Suspended(c) /\ ~Suspended(d) => c = d

(* A call below its operations works on the object that it has looked up, *)
(* which is the registered one unless it was deleted under the call.      *)
Works(c) == Live(c) /\ (Rank(Op(c)) < Rank("others") \/ "booted" \in Ops(c))
Bound == \A c \in Calls : Works(c) => obj[c] \in Objects /\ (obj[c] = current \/ obj[c] \in late)

(* Without an account every job of it is excused. *)
Gone == current = None => \A c \in Calls : IsJob(c) => c \in excused

(* The jobs that end by an exception. *)
Stranded == \A c \in stranded : todo[c] = <<>> /\ (c \in excused \/ obj[c] \in overlapped)

(* What meets on a runtime is in overlapped. *)
Overlaps == \A o \in Objects : Overlap(o) => o \in overlapped

(* A runtime refers to processes that were spawned for it, and a call ends *)
(* those of the object that it works on.                                   *)
Owned ==
    /\ \A p \in Pids : Alive(p) => proc[p].of \in Objects
    /\ \A o \in Objects, f \in Fields : Alive(field[o][f]) => proc[field[o][f]].of = o
    /\ \A c \in Calls : \A a \in Left(c) : a[1] \in {"kill", "end"} /\ Alive(a[2]) => proc[a[2]].of = obj[c]

(* A live process is in a field of the registered account's runtime. *)
Kept == \A p \in Pids : Alive(p) =>
    \/ proc[p].of \in overlapped \cup late
    \/ proc[p].of = current /\ \E f \in Fields : field[current][f] = p

(* After a terminate, a field that is still to be filled is empty. *)
Free == \A c \in Calls : NoneOf(c, Clearing) /\ obj[c] \in Objects \ overlapped =>
    \A f \in Fields : <<"spawn", f>> \in Left(c) => field[obj[c]][f] = None

(* Before the fields are cleared, what lives in them is still to be ended. *)
Listed == \A c \in Calls : "clear" \in Ops(c) /\ NoneOf(c, {"terminate", "close", "list"})
                           /\ obj[c] \in Objects \ overlapped =>
    \A f \in Fields : Alive(field[obj[c]][f]) =>
        <<"kill", field[obj[c]][f]>> \in Left(c) \/ <<"end", field[obj[c]][f]>> \in Left(c)

(* After a terminate, stop_account and delete_account find nothing alive. *)
Ended == \A c \in Calls : ~NoneOf(c, {"stopped", "remove"}) /\ NoneOf(c, Clearing \cup {"stop"})
                          /\ obj[c] \notin overlapped \cup late =>
    \A p \in Pids : Alive(p) => proc[p].of # obj[c]

(* The failure handler of a job relaunches what it found dead; unless       *)
(* another call or a failure disturbs it, the bridge has no server when it  *)
(* starts one, a Chrome listens when it connects, and lives when it opens   *)
(* the page.                                                                *)
Undisturbed(c) == "requeue" \in Ops(c) /\ c \notin excused /\ obj[c] \notin overlapped
Relaunch == \A c \in Calls :
    /\ {"requeue", "start"} \subseteq Ops(c) =>
           Op(c) = "start" /\ (current = None \/ ~Running(current))
    /\ "requeue" \in Ops(c) /\ "connect" \in Ops(c) => ~NoneOf(c, {"open", "tried"})
Handler == \A c \in Calls : Undisturbed(c) =>
    /\ "serve" \in Ops(c) /\ NoneOf(c, Clearing \cup {"unserve"}) => ~serving
    /\ {"open", "connect"} \subseteq Ops(c) /\ AllSpawned(c) =>
           \E p \in Pids : proc[p] = [runs |-> "chrome", of |-> obj[c]]
    /\ "open" \in Ops(c) /\ "connect" \notin Ops(c) => Alive(context[obj[c]])

(* The inductive invariant. *)
IInv ==
    /\ TypeOK /\ Form /\ OneRuns /\ Bound /\ NoGhosts /\ Gone /\ Stranded
    /\ Overlaps /\ Owned /\ Kept /\ Free /\ Listed /\ Ended /\ Relaunch /\ Handler

-----------------------------------------------------------------------------
(* Ranks and steps. *)

LEMMA RankTable ==
    /\ Rank("broken") = 0 /\ Rank("terminate") = 1 /\ Rank("close") = 2 /\ Rank("list") = 3
    /\ Rank("end") = 4 /\ Rank("kill") = 5 /\ Rank("clear") = 6 /\ Rank("unserve") = 7
    /\ Rank("drain") = 8 /\ Rank("serve") = 9 /\ Rank("spawn") = 10 /\ Rank("pause") = 11
    /\ Rank("soft") = 12 /\ Rank("connect") = 13 /\ Rank("visit") = 14 /\ Rank("open") = 15
    /\ Rank("tried") = 16 /\ Rank("ready") = 17 /\ Rank("stopped") = 18 /\ Rank("others") = 20
    /\ Rank("stop") = 21 /\ Rank("start") = 22 /\ Rank("assigned") = 23 /\ Rank("ensure") = 24
    /\ Rank("started") = 25 /\ Rank("work") = 26 /\ Rank("failed") = 27 /\ Rank("recover") = 28
    /\ Rank("generate") = 29 /\ Rank("finished") = 30 /\ Rank("requeue") = 31
    /\ Rank("booted") = 32 /\ Rank("proxy") = 33 /\ Rank("settings") = 34
    /\ Rank("install") = 35 /\ Rank("remove") = 36
  BY DEF Rank

LEMMA RankType == \A name : Rank(name) \in 0 .. 36
  BY DEF Rank

-----------------------------------------------------------------------------
(* Sequences: heads, tails, concatenations. *)

LEMMA Split ==
    ASSUME NEW S, NEW t \in Seq(S), t # <<>>, Ordered(t)
    PROVE  /\ Head(t) \in S /\ Tail(t) \in Seq(S) /\ Ordered(Tail(t))
           /\ Range(t) = {Head(t)} \cup Range(Tail(t))
           /\ \A b \in Range(Tail(t)) : Before(Head(t), b)
           /\ Range(Tail(t)) \subseteq S
           /\ Tail(t) # <<>> => Head(Tail(t)) \in Range(Tail(t))
           /\ Tail(t) = <<>> => Range(Tail(t)) = {}
  <1>1. /\ Head(t) = t[1] /\ Head(t) \in S /\ Tail(t) \in Seq(S)
        /\ DOMAIN t = 1 .. Len(t) /\ Len(t) \in Nat \ {0}
        /\ DOMAIN Tail(t) = 1 .. Len(t) - 1 /\ Len(Tail(t)) = Len(t) - 1
        /\ \A i \in 1 .. Len(t) - 1 : Tail(t)[i] = t[i + 1]
    BY HeadTailProperties, LenProperties, EmptySeq
  <1>2. \A i \in 1 .. Len(t) - 1 : i + 1 \in 1 .. Len(t) /\ 1 < i + 1
    BY <1>1
  <1>3. Ordered(Tail(t))
    BY <1>1, <1>2 DEF Ordered
  <1>4. \A i \in 1 .. Len(t) : i = 1 \/ (i - 1 \in 1 .. Len(t) - 1 /\ (i - 1) + 1 = i)
    BY <1>1
  <1>5. Range(t) \subseteq {Head(t)} \cup Range(Tail(t))
    <2> SUFFICES ASSUME NEW i \in 1 .. Len(t) PROVE t[i] \in {Head(t)} \cup Range(Tail(t))
      BY <1>1 DEF Range
    <2>1. CASE i = 1
      BY <2>1, <1>1
    <2>2. CASE i - 1 \in 1 .. Len(t) - 1 /\ (i - 1) + 1 = i
      <3>1. Tail(t)[i - 1] = t[i]
        BY <2>2, <1>1
      <3> QED
        BY <3>1, <2>2, <1>1 DEF Range
    <2> QED
      BY <2>1, <2>2, <1>4
  <1>6. {Head(t)} \cup Range(Tail(t)) \subseteq Range(t)
    BY <1>1, <1>2 DEF Range
  <1>7. \A b \in Range(Tail(t)) : Before(Head(t), b)
    BY <1>1, <1>2 DEF Range, Ordered
  <1>8. Range(Tail(t)) \subseteq S
    BY <1>1, RangeOfSeq
  <1>9. Tail(t) # <<>> => Head(Tail(t)) \in Range(Tail(t))
    <2> SUFFICES ASSUME Tail(t) # <<>> PROVE Head(Tail(t)) \in Range(Tail(t))
      OBVIOUS
    <2>1. Len(Tail(t)) \in Nat \ {0}
      BY <1>1, EmptySeq
    <2>2. Head(Tail(t)) = Tail(t)[1] /\ 1 \in DOMAIN Tail(t)
      BY <1>1, <2>1
    <2> QED
      BY <2>2 DEF Range
  <1>10. Tail(t) = <<>> => Range(Tail(t)) = {}
    BY <1>1 DEF Range
  <1> QED
    BY <1>1, <1>3, <1>5, <1>6, <1>7, <1>8, <1>9, <1>10

LEMMA Join ==
    ASSUME NEW S, NEW s \in Seq(S), NEW t \in Seq(S), Ordered(s), Ordered(t),
           \A a \in Range(s), b \in Range(t) : Before(a, b)
    PROVE  /\ s \o t \in Seq(S) /\ Ordered(s \o t)
           /\ Range(s \o t) = Range(s) \cup Range(t)
           /\ s = <<>> => s \o t = t
           /\ s # <<>> => s \o t # <<>> /\ Head(s \o t) = Head(s)
  <1>1. /\ s \o t \in Seq(S) /\ Len(s \o t) = Len(s) + Len(t)
        /\ \A i \in 1 .. Len(s) + Len(t) :
               (s \o t)[i] = IF i <= Len(s) THEN s[i] ELSE t[i - Len(s)]
    BY ConcatProperties
  <1>2. /\ DOMAIN s = 1 .. Len(s) /\ DOMAIN t = 1 .. Len(t) /\ DOMAIN (s \o t) = 1 .. Len(s) + Len(t)
        /\ Len(s) \in Nat /\ Len(t) \in Nat
    BY <1>1, LenProperties
  <1>3. Ordered(s \o t)
    <2> SUFFICES ASSUME NEW i \in 1 .. Len(s) + Len(t), NEW j \in 1 .. Len(s) + Len(t), i < j
                 PROVE  Before((s \o t)[i], (s \o t)[j])
      BY <1>2 DEF Ordered
    <2>1. CASE j <= Len(s)
      BY <2>1, <1>1, <1>2 DEF Ordered
    <2>2. CASE i <= Len(s) /\ ~(j <= Len(s))
      <3>1. i \in DOMAIN s /\ j - Len(s) \in DOMAIN t
        BY <2>2, <1>2
      <3>2. s[i] \in Range(s) /\ t[j - Len(s)] \in Range(t)
        BY <3>1 DEF Range
      <3> QED
        BY <3>2, <2>2, <1>1
    <2>3. CASE ~(i <= Len(s))
      <3>1. i - Len(s) \in DOMAIN t /\ j - Len(s) \in DOMAIN t /\ i - Len(s) < j - Len(s)
            /\ ~(j <= Len(s))
        BY <2>3, <1>2
      <3>2. Before(t[i - Len(s)], t[j - Len(s)])
        BY <3>1 DEF Ordered
      <3> QED
        BY <3>1, <3>2, <2>3, <1>1
    <2> QED
      BY <2>1, <2>2, <2>3, <1>2
  <1>4. s = <<>> => s \o t = t
    BY ConcatEmptySeq
  <1>5. s # <<>> => s \o t # <<>> /\ Head(s \o t) = Head(s)
    <2> SUFFICES ASSUME s # <<>> PROVE s \o t # <<>> /\ Head(s \o t) = Head(s)
      OBVIOUS
    <2>1. Len(s) \in Nat \ {0}
      BY EmptySeq
    <2>2. (s \o t)[1] = s[1] /\ Len(s \o t) # 0
      BY <2>1, <1>1, <1>2
    <2> QED
      BY <2>2, <1>1, EmptySeq
  <1> QED
    BY <1>1, <1>3, <1>4, <1>5, RangeConcatenation

LEMMA Suffix ==
    ASSUME NEW S, NEW t \in Seq(S), Ordered(t), NEW k \in DOMAIN t
    PROVE  /\ SubSeq(t, k + 1, Len(t)) \in Seq(S)
           /\ Ordered(SubSeq(t, k + 1, Len(t)))
           /\ \A b \in Range(SubSeq(t, k + 1, Len(t))) : b \in Range(t) /\ Before(t[k], b)
           /\ \A b \in Range(t) :
                  b = t[k] \/ Before(b, t[k]) \/ b \in Range(SubSeq(t, k + 1, Len(t)))
  <1> DEFINE u == SubSeq(t, k + 1, Len(t))
  <1>1. /\ DOMAIN t = 1 .. Len(t) /\ Len(t) \in Nat /\ k \in 1 .. Len(t)
        /\ \A i \in 1 .. Len(t) : t[i] \in S
    BY LenProperties
  <1>2. /\ u \in Seq(S) /\ Len(u) = Len(t) - k
        /\ \A i \in 1 .. Len(t) - k : u[i] = t[k + i]
    <2>1. \A i \in k + 1 .. Len(t) : t[i] \in S
      BY <1>1
    <2>2. /\ u \in Seq(S)
          /\ Len(u) = IF k + 1 <= Len(t) THEN Len(t) - (k + 1) + 1 ELSE 0
          /\ \A i \in 1 .. Len(t) - (k + 1) + 1 : u[i] = t[(k + 1) + i - 1]
      BY <1>1, <2>1, SubSeqProperties
    <2> QED
      BY <1>1, <2>2
  <1>3. DOMAIN u = 1 .. Len(t) - k
    BY <1>2, LenProperties
  <1>4. \A i \in 1 .. Len(t) - k : k + i \in 1 .. Len(t) /\ k < k + i
    BY <1>1
  <1>5. Ordered(u)
    <2> SUFFICES ASSUME NEW i \in 1 .. Len(t) - k, NEW j \in 1 .. Len(t) - k, i < j
                 PROVE  Before(u[i], u[j])
      BY <1>3 DEF Ordered
    <2>1. k + i < k + j
      BY <1>1
    <2> QED
      BY <2>1, <1>1, <1>2, <1>4 DEF Ordered
  <1>6. \A b \in Range(u) : b \in Range(t) /\ Before(t[k], b)
    BY <1>1, <1>2, <1>3, <1>4 DEF Range, Ordered
  <1>7. \A b \in Range(t) : b = t[k] \/ Before(b, t[k]) \/ b \in Range(u)
    <2> SUFFICES ASSUME NEW i \in 1 .. Len(t)
                 PROVE  t[i] = t[k] \/ Before(t[i], t[k]) \/ t[i] \in Range(u)
      BY <1>1 DEF Range
    <2>1. CASE i <= k
      BY <2>1, <1>1 DEF Ordered
    <2>2. CASE ~(i <= k)
      <3>1. i - k \in 1 .. Len(t) - k /\ k + (i - k) = i
        BY <2>2, <1>1
      <3>2. u[i - k] = t[i]
        BY <3>1, <1>2
      <3> QED
        BY <3>1, <3>2, <1>3 DEF Range
    <2> QED
      BY <2>1, <2>2
  <1> QED
    BY <1>2, <1>5, <1>6, <1>7

(* Short sequences. *)
LEMMA Short ==
    /\ Ordered(<<>>) /\ Range(<<>>) = {} /\ \A S : <<>> \in Seq(S)
    /\ \A S : \A a \in S : <<a>> \in Seq(S) /\ Ordered(<<a>>) /\ Range(<<a>>) = {a}
                           /\ <<a>> # <<>> /\ Head(<<a>>) = a
    /\ \A S : \A a, b \in S : /\ <<a, b>> \in Seq(S) /\ Range(<<a, b>>) = {a, b}
                              /\ <<a, b>> # <<>> /\ Head(<<a, b>>) = a
                              /\ Before(a, b) => Ordered(<<a, b>>)
    /\ \A S : \A a, b, d \in S : /\ <<a, b, d>> \in Seq(S) /\ Range(<<a, b, d>>) = {a, b, d}
                                 /\ <<a, b, d>> # <<>> /\ Head(<<a, b, d>>) = a
                                 /\ Before(a, b) /\ Before(a, d) /\ Before(b, d) => Ordered(<<a, b, d>>)
  <1>1. Ordered(<<>>) /\ Range(<<>>) = {} /\ \A S : <<>> \in Seq(S)
    BY DEF Ordered, Range
  <1>2. ASSUME NEW S, NEW a \in S
        PROVE  <<a>> \in Seq(S) /\ Ordered(<<a>>) /\ Range(<<a>>) = {a}
               /\ <<a>> # <<>> /\ Head(<<a>>) = a
    BY DEF Ordered, Range
  <1>3. ASSUME NEW S, NEW a \in S, NEW b \in S
        PROVE  /\ <<a, b>> \in Seq(S) /\ Range(<<a, b>>) = {a, b}
               /\ <<a, b>> # <<>> /\ Head(<<a, b>>) = a
               /\ Before(a, b) => Ordered(<<a, b>>)
    BY DEF Ordered, Range
  <1>4. ASSUME NEW S, NEW a \in S, NEW b \in S, NEW d \in S
        PROVE  /\ <<a, b, d>> \in Seq(S) /\ Range(<<a, b, d>>) = {a, b, d}
               /\ <<a, b, d>> # <<>> /\ Head(<<a, b, d>>) = a
               /\ Before(a, b) /\ Before(a, d) /\ Before(b, d) => Ordered(<<a, b, d>>)
    BY DEF Ordered, Range
  <1> QED
    BY <1>1, <1>2, <1>3, <1>4

-----------------------------------------------------------------------------
(* The steps, and the sequences of them that the operations consist of. *)

LEMMA StepKinds ==
    /\ \A n \in Plain : Do(n) \in Steps /\ Do(n)[1] = n
    /\ \A f \in Fields : <<"spawn", f>> \in Steps
    /\ \A p \in Pids \cup {None} : <<"kill", p>> \in Steps /\ <<"end", p>> \in Steps
    /\ \A n \in Nat : <<"soft", n>> \in Steps /\ <<"tried", n>> \in Steps
    /\ \A a \in Steps :
           /\ a = <<a[1], a[2]>>
           /\ a[1] = "spawn" => a[2] \in Fields
           /\ a[1] \in {"kill", "end"} => a[2] \in Pids \cup {None}
           /\ a[1] \in {"soft", "tried"} => a[2] \in Nat
           /\ a[1] \in Plain => a = Do(a[1])
           /\ a[1] \in Plain \cup {"spawn", "kill", "end", "soft", "tried"}
  BY DEF Steps, Plain, Do, Awaits

LEMMA Lower == \A a, b : Rank(a[1]) < Rank(b[1]) => Before(a, b)
  BY DEF Before

LEMMA FieldTypes ==
    /\ "chrome" \in Fields /\ \A i \in DOMAIN Desktop : Desktop[i] \in Fields \ {"chrome"}
    /\ DOMAIN Desktop = 1 .. Len(Desktop) /\ Len(Desktop) \in Nat
    /\ \A f \in Fields : f = "chrome" \/ \E i \in DOMAIN Desktop : Desktop[i] = f
  <1>1. Desktop \in Seq({"xvfb", "fluxbox", "x11vnc", "novnc"})
    BY DesktopAssumption
  <1>2. /\ DOMAIN Desktop = 1 .. Len(Desktop) /\ Len(Desktop) \in Nat
        /\ \A i \in DOMAIN Desktop : Desktop[i] \in {"xvfb", "fluxbox", "x11vnc", "novnc"}
    BY <1>1, LenProperties
  <1> QED
    BY <1>2 DEF Fields

Spawns == {<<"spawn", f>> : f \in Fields}

LEMMA SpawnAllFacts ==
    /\ SpawnAll \in Seq(Steps) /\ Ordered(SpawnAll)
    /\ Range(SpawnAll) = Spawns \cup {Do("connect"), Do("open"), Do("ready")}
  <1> DEFINE D == [i \in DOMAIN Desktop |-> <<"spawn", Desktop[i]>>]
             Q == <<<<"spawn", "chrome">>, Do("connect"), Do("open"), Do("ready")>>
  <1>1. /\ <<"spawn", "chrome">> \in Steps /\ Do("connect") \in Steps
        /\ Do("open") \in Steps /\ Do("ready") \in Steps
    BY StepKinds, FieldTypes DEF Plain, Awaits
  <1>2. Q \in Seq(Steps) /\ Q # <<>> /\ Len(Q) = 4
        /\ Range(Q) = {<<"spawn", "chrome">>, Do("connect"), Do("open"), Do("ready")}
    <2>1. Q \in Seq(Steps) /\ Q # <<>> /\ Len(Q) = 4
      BY <1>1
    <2>2. DOMAIN Q = 1 .. 4
      OBVIOUS
    <2>3. /\ Q[1] = <<"spawn", "chrome">> /\ Q[2] = Do("connect") /\ Q[3] = Do("open")
          /\ Q[4] = Do("ready")
      OBVIOUS
    <2>4. 1 .. 4 = {1, 2, 3, 4}
      OBVIOUS
    <2> QED
      BY <2>1, <2>2, <2>3, <2>4 DEF Range
  <1>3. Ordered(Q)
    <2>1. DOMAIN Q = 1 .. 4
      OBVIOUS
    <2>2. \A i \in 1 .. 4 : i = 1 \/ i = 2 \/ i = 3 \/ i = 4
      OBVIOUS
    <2>3. /\ Rank(Q[1][1]) = 10 /\ Rank(Q[2][1]) = 13 /\ Rank(Q[3][1]) = 15 /\ Rank(Q[4][1]) = 17
      BY RankTable DEF Do
    <2>4. \A i, j \in 1 .. 4 : i < j => Rank(Q[i][1]) < Rank(Q[j][1])
      BY <2>2, <2>3
    <2> QED
      BY <2>1, <2>4, Lower DEF Ordered
  <1>4. D \in Seq(Steps) /\ DOMAIN D = DOMAIN Desktop
    <2>1. \A i \in 1 .. Len(Desktop) : D[i] \in Steps
      BY FieldTypes, StepKinds
    <2> QED
      BY <2>1, FieldTypes
  <1>5. Ordered(D)
    BY <1>4, DesktopAssumption, FieldTypes DEF Ordered, Before
  <1>6. Range(D) = {<<"spawn", f>> : f \in Fields \ {"chrome"}}
    BY <1>4, FieldTypes DEF Range
  <1>7. \A a \in Range(D), b \in Range(Q) : Before(a, b)
    <2>1. \A a \in Range(D) : a[1] = "spawn" /\ a[2] # "chrome"
      BY <1>6
    <2>2. \A b \in Range(Q) : b = <<"spawn", "chrome">> \/ Rank(b[1]) > 10
      BY <1>2, RankTable DEF Do
    <2> QED
      BY <2>1, <2>2, RankTable DEF Before
  <1>9. SpawnAll = D \o Q
    BY DEF SpawnAll
  <1>10. Range(D) \cup Range(Q) = Spawns \cup {Do("connect"), Do("open"), Do("ready")}
    BY <1>2, <1>6, FieldTypes DEF Spawns
  <1> HIDE DEF D, Q
  <1>8. /\ D \o Q \in Seq(Steps) /\ Ordered(D \o Q) /\ Range(D \o Q) = Range(D) \cup Range(Q)
    BY <1>2, <1>3, <1>4, <1>5, <1>7, Join
  <1> QED
    BY <1>2, <1>8, <1>9, <1>10

LEMMA LaunchFacts ==
    /\ Launch \in Seq(Steps) /\ Ordered(Launch) /\ Launch # <<>> /\ Head(Launch) = Do("terminate")
    /\ Range(Launch) = Spawns \cup {Do("terminate"), Do("unserve"), Do("serve"), Do("connect"),
                                    Do("open"), Do("ready")}
  <1> DEFINE s == <<Do("terminate"), Do("unserve"), Do("serve")>>
  <1>1. Do("terminate") \in Steps /\ Do("unserve") \in Steps /\ Do("serve") \in Steps
    BY StepKinds DEF Plain, Awaits
  <1>2. /\ Rank(Do("terminate")[1]) = 1 /\ Rank(Do("unserve")[1]) = 7 /\ Rank(Do("serve")[1]) = 9
        /\ Rank(Do("connect")[1]) = 13 /\ Rank(Do("open")[1]) = 15 /\ Rank(Do("ready")[1]) = 17
        /\ \A a \in Spawns : Rank(a[1]) = 10
    BY RankTable DEF Do, Spawns
  <1>3. /\ Before(Do("terminate"), Do("unserve")) /\ Before(Do("terminate"), Do("serve"))
        /\ Before(Do("unserve"), Do("serve"))
    BY <1>2, Lower
  <1>4. /\ s \in Seq(Steps) /\ Ordered(s) /\ s # <<>> /\ Head(s) = Do("terminate")
        /\ Range(s) = {Do("terminate"), Do("unserve"), Do("serve")}
    BY <1>1, <1>3, Short
  <1>5. \A a \in Range(s), b \in Range(SpawnAll) : Before(a, b)
    BY <1>2, <1>4, SpawnAllFacts, Lower
  <1>6. Launch = s \o SpawnAll
    BY DEF Launch
  <1>7. Range(s) \cup Range(SpawnAll)
        = Spawns \cup {Do("terminate"), Do("unserve"), Do("serve"), Do("connect"),
                      Do("open"), Do("ready")}
    <2>1. Range(SpawnAll) = Spawns \cup {Do("connect"), Do("open"), Do("ready")}
      BY SpawnAllFacts
    <2> HIDE DEF s
    <2> QED
      BY <1>4, <2>1
  <1> HIDE DEF s
  <1>8. /\ s \o SpawnAll \in Seq(Steps) /\ Ordered(s \o SpawnAll)
        /\ Range(s \o SpawnAll) = Range(s) \cup Range(SpawnAll)
        /\ s \o SpawnAll # <<>> /\ Head(s \o SpawnAll) = Head(s)
    BY <1>4, <1>5, SpawnAllFacts, Join
  <1> QED
    BY <1>4, <1>6, <1>7, <1>8

LEMMA HardRecoverFacts ==
    /\ HardRecover \in Seq(Steps) /\ Ordered(HardRecover) /\ HardRecover # <<>>
    /\ Head(HardRecover) = Do("terminate")
    /\ Range(HardRecover) = Spawns \cup {Do("terminate"), Do("connect"), Do("open"), Do("ready")}
  <1> DEFINE s == <<Do("terminate")>>
  <1>1. Do("terminate") \in Steps
    BY StepKinds DEF Plain, Awaits
  <1>2. /\ Rank(Do("terminate")[1]) = 1
        /\ Rank(Do("connect")[1]) = 13 /\ Rank(Do("open")[1]) = 15 /\ Rank(Do("ready")[1]) = 17
        /\ \A a \in Spawns : Rank(a[1]) = 10
    BY RankTable DEF Do, Spawns
  <1>4. s \in Seq(Steps) /\ Ordered(s) /\ s # <<>> /\ Head(s) = Do("terminate")
        /\ Range(s) = {Do("terminate")}
    BY <1>1, Short
  <1>5. \A a \in Range(s), b \in Range(SpawnAll) : Before(a, b)
    BY <1>2, <1>4, SpawnAllFacts, Lower
  <1>6. HardRecover = s \o SpawnAll
    BY DEF HardRecover
  <1> HIDE DEF s
  <1> QED
    BY <1>4, <1>5, <1>6, SpawnAllFacts, Join

(* The processes that EndAll reads from the fields. *)
KillAll(of) ==
    <<<<"kill", of["chrome"]>>>>
    \o [i \in DOMAIN Desktop |-> <<"kill", of[Desktop[Len(Desktop) + 1 - i]]>>] \o <<Do("clear")>>

LEMMA KillAllFacts ==
    ASSUME NEW of \in [Fields -> Pids \cup {None}]
    PROVE  /\ KillAll(of) \in Seq(Steps) /\ Ordered(KillAll(of))
           /\ KillAll(of) # <<>> /\ Head(KillAll(of))[1] = "kill"
           /\ Range(KillAll(of)) = {<<"kill", of[f]>> : f \in Fields} \cup {Do("clear")}
  <1> DEFINE H == <<<<"kill", of["chrome"]>>>>
             D == [i \in DOMAIN Desktop |-> <<"kill", of[Desktop[Len(Desktop) + 1 - i]]>>]
             Q == <<Do("clear")>>
             X == H \o D
  <1>1. \A f \in Fields : <<"kill", of[f]>> \in Steps
    BY StepKinds
  <1>2. \A i \in 1 .. Len(Desktop) :
            Len(Desktop) + 1 - i \in 1 .. Len(Desktop) /\ Len(Desktop) + 1 - (Len(Desktop) + 1 - i) = i
    BY FieldTypes
  <1>3. D \in Seq(Steps) /\ DOMAIN D = 1 .. Len(Desktop)
    <2>1. \A i \in 1 .. Len(Desktop) : D[i] \in Steps
      BY <1>1, <1>2, FieldTypes
    <2> QED
      BY <2>1, FieldTypes
  <1>4. Range(D) = {<<"kill", of[f]>> : f \in Fields \ {"chrome"}}
    <2>1. Range(D) \subseteq {<<"kill", of[f]>> : f \in Fields \ {"chrome"}}
      BY <1>2, <1>3, FieldTypes DEF Range
    <2>2. ASSUME NEW f \in Fields \ {"chrome"} PROVE <<"kill", of[f]>> \in Range(D)
      <3>1. PICK i \in 1 .. Len(Desktop) : Desktop[i] = f
        BY FieldTypes
      <3>2. D[Len(Desktop) + 1 - i] = <<"kill", of[f]>>
        BY <3>1, <1>2, FieldTypes
      <3> QED
        BY <3>2, <1>2, <1>3 DEF Range
    <2> QED
      BY <2>1, <2>2
  <1>5. Ordered(D)
    BY <1>3 DEF Ordered, Before
  <1>6. Q \in Seq(Steps) /\ Ordered(Q) /\ Range(Q) = {Do("clear")}
    <2>1. Do("clear") \in Steps
      BY StepKinds DEF Plain
    <2> QED
      BY <2>1, Short
  <1>7. H \in Seq(Steps) /\ Ordered(H) /\ H # <<>> /\ Head(H) = <<"kill", of["chrome"]>>
        /\ Range(H) = {<<"kill", of["chrome"]>>}
    BY <1>1, FieldTypes, Short
  <1>8. \A a \in Range(H), b \in Range(D) : Before(a, b)
    BY <1>4, <1>7 DEF Before
  <1>12. KillAll(of) = X \o Q
    BY DEF KillAll
  <1>13. Range(H) \cup Range(D) = {<<"kill", of[f]>> : f \in Fields}
    BY <1>4, <1>7, FieldTypes
  <1>14. <<"kill", of["chrome"]>>[1] = "kill"
    OBVIOUS
  <1> HIDE DEF H, D, Q
  <1>9. /\ X \in Seq(Steps) /\ Ordered(X) /\ Range(X) = Range(H) \cup Range(D)
        /\ X # <<>> /\ Head(X) = Head(H)
    BY <1>3, <1>5, <1>7, <1>8, Join
  <1> HIDE DEF X
  <1>10. \A a \in Range(X), b \in Range(Q) : Before(a, b)
    <2>1. \A a \in Range(X) : a[1] = "kill"
      BY <1>4, <1>7, <1>9
    <2>2. Rank("kill") = 5 /\ Rank(Do("clear")[1]) = 6
      BY RankTable DEF Do
    <2> QED
      BY <1>6, <2>1, <2>2, Lower
  <1>11. /\ X \o Q \in Seq(Steps) /\ Ordered(X \o Q)
         /\ Range(X \o Q) = Range(X) \cup Range(Q)
         /\ X \o Q # <<>> /\ Head(X \o Q) = Head(X)
    BY <1>6, <1>9, <1>10, Join
  <1> QED
    BY <1>6, <1>7, <1>9, <1>11, <1>12, <1>13, <1>14

-----------------------------------------------------------------------------
(* What is left to a call. *)

(* What a call does after its head, and that names come after one. *)
Rest(c) == Range(Tail(todo[c]))
Follow(name, O) == \A n \in O : Rank(name) < Rank(n) \/ (name = n /\ n \in {"kill", "ready", "spawn"})

LEMMA NamesOf ==
    /\ \A L, M : Names(L \cup M) = Names(L) \cup Names(M)
    /\ Names({}) = {}
    /\ \A a : Names({a}) = {a[1]}
    /\ \A a, b : Names({a, b}) = {a[1], b[1]}
    /\ \A a, b, d : Names({a, b, d}) = {a[1], b[1], d[1]}
  BY DEF Names

LEMMA Unfold ==
    ASSUME TypeOK, Form, NEW c \in Calls, Live(c)
    PROVE  /\ Head(todo[c]) \in Steps /\ Tail(todo[c]) \in Seq(Steps) /\ Ordered(Tail(todo[c]))
           /\ Left(c) = {Head(todo[c])} \cup Rest(c) /\ Rest(c) \subseteq Steps
           /\ \A b \in Rest(c) : Before(Head(todo[c]), b)
           /\ Ops(c) = {Op(c)} \cup Names(Rest(c))
           /\ Follow(Op(c), Names(Rest(c)))
           /\ Tail(todo[c]) = <<>> => Rest(c) = {}
           /\ Tail(todo[c]) # <<>> => Head(Tail(todo[c])) \in Rest(c)
  <1>1. todo[c] \in Seq(Steps) /\ todo[c] # <<>> /\ Ordered(todo[c])
    BY DEF TypeOK, Form, Live
  <1>2. /\ Head(todo[c]) \in Steps /\ Tail(todo[c]) \in Seq(Steps) /\ Ordered(Tail(todo[c]))
        /\ Left(c) = {Head(todo[c])} \cup Rest(c) /\ Rest(c) \subseteq Steps
        /\ \A b \in Rest(c) : Before(Head(todo[c]), b)
        /\ Tail(todo[c]) = <<>> => Rest(c) = {}
        /\ Tail(todo[c]) # <<>> => Head(Tail(todo[c])) \in Rest(c)
    BY <1>1, Split DEF Left, Rest
  <1>3. Ops(c) = {Op(c)} \cup Names(Rest(c))
    BY <1>2 DEF Ops, Op, Names
  <1>4. Follow(Op(c), Names(Rest(c)))
    BY <1>2 DEF Follow, Names, Before, Op
  <1> QED
    BY <1>2, <1>3, <1>4

LEMMA HasOps ==
    ASSUME TypeOK, NEW c \in Calls
    PROVE  /\ \A names : Has(c, names) <=> \E n \in names : n \in Ops(c)
           /\ Live(c) <=> Ops(c) # {}
           /\ Ops(c) \subseteq Plain \cup {"spawn", "kill", "end", "soft", "tried"}
           /\ Left(c) \subseteq Steps
  <1>1. todo[c] \in Seq(Steps)
    BY DEF TypeOK
  <1>2. /\ DOMAIN todo[c] = 1 .. Len(todo[c]) /\ Len(todo[c]) \in Nat
        /\ \A i \in DOMAIN todo[c] : todo[c][i] \in Steps
        /\ todo[c] = <<>> <=> Len(todo[c]) = 0
    BY <1>1, LenProperties, EmptySeq
  <1>3. \A n : n \in Ops(c) <=> \E i \in DOMAIN todo[c] : todo[c][i][1] = n
    BY DEF Ops, Names, Left, Range
  <1>4. \A names : Has(c, names) <=> \E n \in names : n \in Ops(c)
    BY <1>3 DEF Has
  <1>5. Live(c) <=> Ops(c) # {}
    <2>1. CASE todo[c] = <<>>
      BY <2>1, <1>2, <1>3 DEF Live
    <2>2. CASE todo[c] # <<>>
      <3>1. 1 \in DOMAIN todo[c]
        BY <2>2, <1>2
      <3> QED
        BY <2>2, <3>1, <1>3 DEF Live
    <2> QED
      BY <2>1, <2>2
  <1>6. Left(c) \subseteq Steps
    BY <1>2 DEF Left, Range
  <1>7. Ops(c) \subseteq Plain \cup {"spawn", "kill", "end", "soft", "tried"}
    BY <1>2, <1>3, StepKinds
  <1> QED
    BY <1>4, <1>5, <1>6, <1>7

(* Every other call keeps what it has to do, and this one a program in order. *)
Stays(c) == \A d \in Calls \ {c} : todo'[d] = todo[d]
Well(c) == todo' \in [Calls -> Seq(Steps)] /\ Ordered(todo'[c]) /\ Stays(c)

LEMMA Advance ==
    ASSUME TypeOK, Form, NEW c \in Calls, Live(c), NEW s \in Seq(Steps), Ordered(s),
           \A a \in Range(s), b \in Rest(c) : Before(a, b), Goes(c, s)
    PROVE  Well(c) /\ Left(c)' = Range(s) \cup Rest(c) /\ stranded' = stranded
  <1>1. Tail(todo[c]) \in Seq(Steps) /\ Ordered(Tail(todo[c]))
    BY Unfold
  <1>2. /\ s \o Tail(todo[c]) \in Seq(Steps) /\ Ordered(s \o Tail(todo[c]))
        /\ Range(s \o Tail(todo[c])) = Range(s) \cup Rest(c)
    BY <1>1, Join DEF Rest
  <1>3. todo' = [todo EXCEPT ![c] = s \o Tail(todo[c])] /\ stranded' = stranded
    BY DEF Goes
  <1>4. todo \in [Calls -> Seq(Steps)]
    BY DEF TypeOK
  <1>5. todo'[c] = s \o Tail(todo[c]) /\ Stays(c)
    BY <1>3, <1>4 DEF Stays
  <1> QED
    BY <1>2, <1>3, <1>4, <1>5 DEF Well, Left

LEMMA Passing ==
    ASSUME TypeOK, Form, NEW c \in Calls, Live(c), Goes(c, <<>>)
    PROVE  Well(c) /\ Left(c)' = Rest(c) /\ stranded' = stranded
  <1>1. <<>> \in Seq(Steps) /\ Ordered(<<>>) /\ Range(<<>>) = {}
    BY Short
  <1>2. \A a \in Range(<<>>), b \in Rest(c) : Before(a, b)
    BY <1>1
  <1>3. Well(c) /\ Left(c)' = Range(<<>>) \cup Rest(c) /\ stranded' = stranded
    BY <1>1, <1>2, Advance
  <1> QED
    BY <1>1, <1>3

-----------------------------------------------------------------------------
(* What an exception leaves to do. *)

(* What remains after a recovery, and what an exception leaves: another   *)
(* attempt, the hard recovery, the clauses of the autostart and of the    *)
(* job, or the end of the call.                                           *)
Later(c) == {a \in Left(c) : Rank(a[1]) > Rank("tried")}
Raised(c) ==
    \/ /\ "tried" \in Ops(c) /\ stranded' = stranded
       /\ \/ \E n \in Nat : Left(c)' = {Do("pause"), <<"soft", n>>} \cup Later(c)
          \/ Left(c)' = Range(HardRecover) \cup Later(c)
    \/ /\ "tried" \notin Ops(c) /\ "booted" \in Ops(c)
       /\ stranded' = stranded /\ Left(c)' = {Do("broken")}
    \/ /\ "tried" \notin Ops(c) /\ "booted" \notin Ops(c) /\ "finished" \in Ops(c) /\ Op(c) # "started"
       /\ stranded' = stranded /\ Left(c)' = {Do("failed"), Do("recover"), Do("requeue")}
    \/ /\ "tried" \notin Ops(c) /\ "booted" \notin Ops(c) /\ ("finished" \in Ops(c) => Op(c) = "started")
       /\ stranded' = (IF IsJob(c) THEN stranded \cup {c} ELSE stranded)
       /\ todo'[c] = <<>> /\ Left(c)' = {}

LEMMA Replaced ==
    ASSUME TypeOK, NEW c \in Calls, NEW s \in Seq(Steps), Ordered(s), todo' = [todo EXCEPT ![c] = s]
    PROVE  Well(c) /\ Left(c)' = Range(s) /\ todo'[c] = s
  <1>1. todo \in [Calls -> Seq(Steps)]
    BY DEF TypeOK
  <1>2. todo'[c] = s /\ Stays(c) /\ todo' \in [Calls -> Seq(Steps)]
    BY <1>1 DEF Stays
  <1> QED
    BY <1>2 DEF Well, Left

LEMMA HandleFailureFacts ==
    /\ HandleFailure \in Seq(Steps) /\ Ordered(HandleFailure) /\ HandleFailure # <<>>
    /\ Range(HandleFailure) = {Do("failed"), Do("recover"), Do("requeue")}
  <1>1. Do("failed") \in Steps /\ Do("recover") \in Steps /\ Do("requeue") \in Steps
    BY StepKinds DEF Plain
  <1>2. Rank(Do("failed")[1]) = 27 /\ Rank(Do("recover")[1]) = 28 /\ Rank(Do("requeue")[1]) = 31
    BY RankTable DEF Do
  <1>3. /\ Before(Do("failed"), Do("recover")) /\ Before(Do("failed"), Do("requeue"))
        /\ Before(Do("recover"), Do("requeue"))
    BY <1>2, Lower
  <1> QED
    BY <1>1, <1>3, Short DEF HandleFailure

LEMMA Raises ==
    ASSUME TypeOK, Form, NEW c \in Calls, Live(c), Raise(c)
    PROVE  Well(c) /\ Raised(c)
  <1> DEFINE t == todo[c]
             tries == {i \in DOMAIN t : t[i][1] = "tried"}
             last == CHOOSE i \in tries : TRUE
             u == SubSeq(t, last + 1, Len(t))
             again == IF t[last][2] < Attempts THEN <<Do("pause"), <<"soft", t[last][2] + 1>>>>
                      ELSE HardRecover
  <1>1. /\ todo' = [todo EXCEPT ![c] = AfterException(c)]
        /\ stranded' = IF IsJob(c) /\ AfterException(c) = <<>> THEN stranded \cup {c} ELSE stranded
    BY DEF Raise
  <1>2. t \in Seq(Steps) /\ Ordered(t) /\ \A i \in DOMAIN t : t[i] \in Steps /\ t[i] \in Left(c)
    BY DEF TypeOK, Form, Left, Range
  <1>3. tries # {} <=> "tried" \in Ops(c)
    BY DEF Ops, Names, Left, Range
  <1>4. "booted" \in Ops(c) <=> Has(c, {"booted"})
    BY HasOps
  <1>5. "finished" \in Ops(c) <=> Has(c, {"finished"})
    BY HasOps
  <1>6. ASSUME tries # {} PROVE Well(c) /\ Raised(c)
    <2>1. last \in DOMAIN t /\ t[last][1] = "tried"
      BY <1>6
    <2>2. t[last][2] \in Nat
      BY <2>1, <1>2, StepKinds
    <2>3. AfterException(c) = again \o u
      BY <1>6 DEF AfterException
    <2> HIDE DEF last
    <2>4. /\ u \in Seq(Steps) /\ Ordered(u)
          /\ \A b \in Range(u) : b \in Left(c) /\ Before(t[last], b)
          /\ \A b \in Left(c) : b = t[last] \/ Before(b, t[last]) \/ b \in Range(u)
      BY <1>2, <2>1, Suffix DEF Left
    <2>5. Range(u) = Later(c)
      <3>1. Rank("tried") = 16
        BY RankTable
      <3>2. \A b \in Range(u) : Rank(b[1]) > 16
        BY <2>1, <2>4, <3>1, RankType DEF Before
      <3>3. ASSUME NEW b \in Left(c), Rank(b[1]) > 16 PROVE b \in Range(u)
        <4>1. b # t[last]
          BY <2>1, <3>1, <3>3
        <4>2. ~(Rank(b[1]) < 16)
          BY <3>3, RankType
        <4>3. ~Before(b, t[last])
          BY <2>1, <3>1, <4>2 DEF Before
        <4> QED
          BY <4>1, <4>3, <2>4
      <3> QED
        BY <3>1, <3>2, <3>3, <2>4 DEF Later
    <2>6. \A b \in Range(u) : Rank(b[1]) > 16
      BY <2>5, RankTable DEF Later
    <2>7. again # <<>>
      BY HardRecoverFacts
    <2> HIDE DEF u
    <2>8. CASE t[last][2] < Attempts
      <3> DEFINE n == t[last][2] + 1
                 s == <<Do("pause"), <<"soft", n>>>>
      <3>0. n \in Nat /\ "pause" \in Plain
        BY <2>2 DEF Plain, Awaits
      <3> HIDE DEF again, n
      <3>1. n \in Nat /\ Do("pause") \in Steps /\ <<"soft", n>> \in Steps
        BY <3>0, StepKinds
      <3>2. Rank(Do("pause")[1]) = 11 /\ Rank(<<"soft", n>>[1]) = 12
        BY RankTable DEF Do
      <3>6. again = s
        BY <2>8 DEF again, n
      <3>3. s \in Seq(Steps) /\ Ordered(s) /\ s # <<>> /\ Range(s) = {Do("pause"), <<"soft", n>>}
        BY <3>1, <3>2, Lower, Short
      <3>4. \A a \in Range(s), b \in Range(u) : Before(a, b)
        BY <3>2, <3>3, <2>6, Lower, RankType
      <3> HIDE DEF s
      <3>5. /\ s \o u \in Seq(Steps) /\ Ordered(s \o u) /\ Range(s \o u) = Range(s) \cup Range(u)
            /\ s \o u # <<>>
        BY <3>3, <3>4, <2>4, Join
      <3>7. AfterException(c) = s \o u
        BY <2>3, <3>6
      <3>8. Well(c) /\ Left(c)' = Range(s) \cup Range(u)
        BY <3>5, <3>7, <1>1, Replaced
      <3>9. stranded' = stranded
        BY <3>5, <3>7, <1>1
      <3> QED
        BY <3>1, <3>3, <3>8, <3>9, <2>5, <1>3, <1>6 DEF Raised
    <2>9. CASE ~(t[last][2] < Attempts)
      <3>1. again = HardRecover
        BY <2>9
      <3>2. \A a \in Range(HardRecover) : a[1] = "ready" \/ Rank(a[1]) < 16
        <4>1. /\ Rank(Do("terminate")[1]) = 1 /\ Rank(Do("connect")[1]) = 13
              /\ Rank(Do("open")[1]) = 15 /\ Do("ready")[1] = "ready"
              /\ \A a \in Spawns : Rank(a[1]) = 10
          BY RankTable DEF Spawns, Do
        <4> QED
          BY <4>1, HardRecoverFacts
      <3>3. \A b \in Range(u) : b[1] = "ready" \/ Rank(b[1]) > 17
        <4>1. \A n : Rank(n) = 17 => n = "ready"
          BY DEF Rank
        <4> QED
          BY <4>1, <2>6, RankType
      <3>4. \A a \in Range(HardRecover), b \in Range(u) : Before(a, b)
        <4>1. Rank("ready") = 17
          BY RankTable
        <4> QED
          BY <4>1, <3>2, <3>3, RankType DEF Before
      <3> HIDE DEF again
      <3>5. /\ HardRecover \o u \in Seq(Steps) /\ Ordered(HardRecover \o u)
            /\ Range(HardRecover \o u) = Range(HardRecover) \cup Range(u)
            /\ HardRecover \o u # <<>>
        BY <3>4, <2>4, HardRecoverFacts, Join
      <3>7. AfterException(c) = HardRecover \o u
        BY <2>3, <3>1
      <3>8. Well(c) /\ Left(c)' = Range(HardRecover) \cup Range(u)
        BY <3>5, <3>7, <1>1, Replaced
      <3>9. stranded' = stranded
        BY <3>5, <3>7, <1>1
      <3> QED
        BY <3>8, <3>9, <2>5, <1>3, <1>6 DEF Raised
    <2> QED
      BY <2>8, <2>9
  <1>7. ASSUME tries = {}, Has(c, {"booted"}) PROVE Well(c) /\ Raised(c)
    <2>1. AfterException(c) = <<Do("broken")>>
      BY <1>7 DEF AfterException
    <2>2. Do("broken") \in Steps
      BY StepKinds DEF Plain
    <2>3. /\ <<Do("broken")>> \in Seq(Steps) /\ Ordered(<<Do("broken")>>) /\ <<Do("broken")>> # <<>>
          /\ Range(<<Do("broken")>>) = {Do("broken")}
      BY <2>2, Short
    <2>4. Well(c) /\ Left(c)' = {Do("broken")}
      BY <2>1, <2>3, <1>1, Replaced
    <2> QED
      BY <2>1, <2>3, <2>4, <1>1, <1>3, <1>4, <1>7 DEF Raised
  <1>8. ASSUME tries = {}, ~Has(c, {"booted"}), Has(c, {"finished"}) /\ Op(c) # "started"
        PROVE  Well(c) /\ Raised(c)
    <2>1. AfterException(c) = HandleFailure
      BY <1>8 DEF AfterException
    <2>4. Well(c) /\ Left(c)' = {Do("failed"), Do("recover"), Do("requeue")}
      BY <2>1, <1>1, HandleFailureFacts, Replaced
    <2> QED
      BY <2>1, <2>4, <1>1, <1>3, <1>4, <1>5, <1>8, HandleFailureFacts DEF Raised
  <1>9. ASSUME tries = {}, ~Has(c, {"booted"}), ~(Has(c, {"finished"}) /\ Op(c) # "started")
        PROVE  Well(c) /\ Raised(c)
    <2>1. AfterException(c) = <<>>
      BY <1>9 DEF AfterException
    <2>2. <<>> \in Seq(Steps) /\ Ordered(<<>>) /\ Range(<<>>) = {}
      BY Short
    <2>4. Well(c) /\ Left(c)' = {} /\ todo'[c] = <<>>
      BY <2>1, <2>2, <1>1, Replaced
    <2> QED
      BY <2>1, <2>4, <1>1, <1>3, <1>4, <1>5, <1>9 DEF Raised
  <1> HIDE DEF tries
  <1> QED
    BY <1>6, <1>7, <1>8, <1>9

-----------------------------------------------------------------------------
(* How a step changes what is left to its call. *)

LEMMA RankInverse ==
    ASSUME NEW n
    PROVE  /\ Rank(n) = 2 => n = "close"
           /\ Rank(n) = 3 => n = "list"
           /\ Rank(n) = 4 => n = "end"
           /\ Rank(n) = 5 => n = "kill"
           /\ Rank(n) = 6 => n = "clear"
           /\ Rank(n) = 8 => n = "drain"
           /\ Rank(n) = 13 => n = "connect"
           /\ Rank(n) = 14 => n = "visit"
           /\ Rank(n) = 15 => n = "open"
           /\ Rank(n) = 16 => n = "tried"
           /\ Rank(n) = 17 => n = "ready"
           /\ Rank(n) = 27 => n = "failed"
           /\ Rank(n) = 28 => n = "recover"
           /\ Rank(n) = 29 => n = "generate"
  <1>1. Rank(n) = 2 => n = "close"
    BY DEF Rank
  <1>2. Rank(n) = 3 => n = "list"
    BY DEF Rank
  <1>3. Rank(n) = 4 => n = "end"
    BY DEF Rank
  <1>4. Rank(n) = 5 => n = "kill"
    BY DEF Rank
  <1>5. Rank(n) = 6 => n = "clear"
    BY DEF Rank
  <1>6. Rank(n) = 8 => n = "drain"
    BY DEF Rank
  <1>7. Rank(n) = 13 => n = "connect"
    BY DEF Rank
  <1>8. Rank(n) = 14 => n = "visit"
    BY DEF Rank
  <1>9. Rank(n) = 15 => n = "open"
    BY DEF Rank
  <1>10. Rank(n) = 16 => n = "tried"
    BY DEF Rank
  <1>11. Rank(n) = 17 => n = "ready"
    BY DEF Rank
  <1>12. Rank(n) = 27 => n = "failed"
    BY DEF Rank
  <1>13. Rank(n) = 28 => n = "recover"
    BY DEF Rank
  <1>14. Rank(n) = 29 => n = "generate"
    BY DEF Rank
  <1> QED
    BY <1>1, <1>2, <1>3, <1>4, <1>5, <1>6, <1>7, <1>8, <1>9, <1>10, <1>11, <1>12, <1>13, <1>14

LEMMA Push1 ==
    ASSUME TypeOK, Form, NEW c \in Calls, Live(c), NEW a \in Steps,
           \A b \in Rest(c) : Before(a, b), Goes(c, <<a>>)
    PROVE  Well(c) /\ Left(c)' = {a} \cup Rest(c) /\ stranded' = stranded
  <1> DEFINE s == <<a>>
  <1>1. s \in Seq(Steps) /\ Ordered(s) /\ Range(s) = {a}
    BY Short
  <1>2. Goes(c, s)
    OBVIOUS
  <1> HIDE DEF s
  <1> QED
    BY <1>1, <1>2, Advance

LEMMA Push2 ==
    ASSUME TypeOK, Form, NEW c \in Calls, Live(c), NEW a \in Steps, NEW b \in Steps,
           Before(a, b), \A x \in Rest(c) : Before(a, x) /\ Before(b, x), Goes(c, <<a, b>>)
    PROVE  Well(c) /\ Left(c)' = {a, b} \cup Rest(c) /\ stranded' = stranded
  <1> DEFINE s == <<a, b>>
  <1>1. s \in Seq(Steps) /\ Ordered(s) /\ Range(s) = {a, b}
    BY Short
  <1>2. Goes(c, s)
    OBVIOUS
  <1> HIDE DEF s
  <1> QED
    BY <1>1, <1>2, Advance

LEMMA Push3 ==
    ASSUME TypeOK, Form, NEW c \in Calls, Live(c),
           NEW a \in Steps, NEW b \in Steps, NEW d \in Steps,
           Before(a, b), Before(a, d), Before(b, d),
           \A x \in Rest(c) : Before(a, x) /\ Before(b, x) /\ Before(d, x), Goes(c, <<a, b, d>>)
    PROVE  Well(c) /\ Left(c)' = {a, b, d} \cup Rest(c) /\ stranded' = stranded
  <1> DEFINE s == <<a, b, d>>
  <1>1. s \in Seq(Steps) /\ Ordered(s) /\ Range(s) = {a, b, d}
    BY Short
  <1>2. Goes(c, s)
    OBVIOUS
  <1> HIDE DEF s
  <1> QED
    BY <1>1, <1>2, Advance

(* A step of a lower rank goes before the rest. *)
LEMMA Lowers ==
    ASSUME TypeOK, Form, NEW c \in Calls, Live(c)
    PROVE  /\ \A b \in Rest(c) : Rank(b[1]) >= Rank(Op(c))
           /\ \A a : Rank(a[1]) < Rank(Op(c)) => \A b \in Rest(c) : Before(a, b)
           /\ Op(c) \notin {"kill", "ready", "spawn"} => \A b \in Rest(c) : Rank(b[1]) > Rank(Op(c))
           /\ \A b \in Rest(c) : b[1] \in Ops(c)
  <1>1. \A b \in Rest(c) : b[1] \in Names(Rest(c))
    BY DEF Names
  <1>2. \A n \in Names(Rest(c)) : Rank(Op(c)) < Rank(n) \/ (Op(c) = n /\ n \in {"kill", "ready", "spawn"})
    BY Unfold DEF Follow
  <1>3. \A b \in Rest(c) : Rank(b[1]) >= Rank(Op(c))
    BY <1>1, <1>2, RankType
  <1>4. \A a : Rank(a[1]) < Rank(Op(c)) => \A b \in Rest(c) : Before(a, b)
    BY <1>3, RankType, Lower
  <1>5. Op(c) \notin {"kill", "ready", "spawn"} => \A b \in Rest(c) : Rank(b[1]) > Rank(Op(c))
    BY <1>1, <1>2, RankType
  <1>6. \A b \in Rest(c) : b[1] \in Ops(c)
    BY <1>1, Unfold
  <1> QED
    BY <1>3, <1>4, <1>5, <1>6

(* The kinds of steps: one that only passes; a start; a stop or recovery;  *)
(* an operation that calls another; a part of terminate or of the bridge's *)
(* stop; an attempt of the recovery; an exception or the job's time-out.   *)
Same == obj' = obj
Found(c) == current # None /\ obj' = [obj EXCEPT ![c] = current]
Looks == {"proxy", "settings", "ensure", "started", "finished", "failed"}

Passed(c) ==
    /\ Left(c)' = Rest(c) /\ (Same \/ (Op(c) \in Looks /\ Found(c)))
    /\ Op(c) \notin {"terminate", "list", "stop"} /\ (Op(c) = "kill" => ~Alive(Arg(c)))
Starts(c) ==
    /\ Op(c) = "start" /\ Found(c)
    /\ \/ Left(c)' = Range(Launch) \cup Rest(c)
       \/ Left(c)' = {Do("connect"), Do("ready")} \cup Rest(c) /\ Running(current)
       \/ Left(c)' = {Do("ready")} \cup Rest(c)
StopsOrRecovers(c) ==
    /\ Found(c)
    /\ \/ Op(c) = "stop" /\ Left(c)' = {Do("terminate"), Do("unserve"), Do("stopped")} \cup Rest(c)
       \/ Op(c) = "recover" /\ Left(c)' = {<<"soft", 1>>, Do("ready")} \cup Rest(c)
       \/ Op(c) = "recover" /\ Left(c)' = {Do("start")} \cup Rest(c) /\ ~Running(current)
Delegates(c) ==
    \/ /\ Op(c) \in {"proxy", "settings", "ensure"} /\ Found(c)
       /\ \/ Left(c)' = {Do("stop"), Do("start")} \cup Rest(c)
          \/ Left(c)' = {Do("stop")} \cup Rest(c)
          \/ Left(c)' = {Do("start")} \cup Rest(c)
    \/ Op(c) = "install" /\ Same /\ Left(c)' = {Do("others"), Do("stop"), Do("start")} \cup Rest(c)
    \/ Op(c) = "work" /\ Same /\ Left(c)' = {Do("recover"), Do("generate")} \cup Rest(c)
Clears(c) ==
    /\ Same
    /\ \/ Op(c) = "terminate" /\ Left(c)' = {Do("close"), Do("list")} \cup Rest(c)
       \/ Op(c) = "terminate" /\ Left(c)' = {Do("list")} \cup Rest(c)
       \/ /\ Op(c) = "list"
          /\ Left(c)' = {<<"kill", field[obj[c]][f]>> : f \in Fields} \cup {Do("clear")} \cup Rest(c)
       \/ Op(c) = "kill" /\ Left(c)' = {<<"end", Arg(c)>>} \cup Rest(c)
       \/ Op(c) = "unserve" /\ Left(c)' = {Do("drain")} \cup Rest(c)
Tries(c) ==
    /\ Op(c) = "soft" /\ Same
    /\ \/ Left(c)' = {Do("connect"), Do("visit"), <<"tried", Arg(c)>>} \cup Rest(c)
       \/ Left(c)' = {Do("visit"), <<"tried", Arg(c)>>} \cup Rest(c)
Fallen(c) ==
    /\ Same
    /\ \/ Raised(c)
       \/ /\ "generate" \in Ops(c) /\ stranded' = stranded
          /\ Left(c)' = {Do("failed"), Do("recover"), Do("requeue")}

Moved(c) ==
    /\ Live(c)
    /\ \/ Fallen(c)
       \/ /\ stranded' = stranded
          /\ Passed(c) \/ Starts(c) \/ StopsOrRecovers(c) \/ Delegates(c) \/ Clears(c) \/ Tries(c)

LEMMA OpKinds ==
    ASSUME TypeOK, Form, NEW c \in Calls, Live(c)
    PROVE  /\ Op(c) \in Ops(c) /\ Head(todo[c]) \in Left(c) /\ Head(todo[c]) \in Steps
           /\ Op(c) \in {"kill", "end"} => Head(todo[c]) = <<Op(c), Arg(c)>> /\ Arg(c) \in Pids \cup {None}
           /\ Op(c) = "spawn" => Head(todo[c]) = <<"spawn", Arg(c)>> /\ Arg(c) \in Fields
           /\ Op(c) = "soft" => Arg(c) \in Nat
  <1>1. /\ Ops(c) = {Op(c)} \cup Names(Rest(c)) /\ Left(c) = {Head(todo[c])} \cup Rest(c)
        /\ Head(todo[c]) \in Steps
    BY Unfold
  <1> QED
    BY <1>1, StepKinds DEF Op, Arg

(* Each operation of a call goes on with steps that come before the rest. *)
LEMMA StartGoes ==
    ASSUME TypeOK, Form, NEW c \in Calls, StartAccount(c)
    PROVE  Well(c) /\ Moved(c)
  <1>1. /\ Live(c) /\ Op(c) = "start" /\ Found(c)
        /\ Goes(c, IF ~Running(current) THEN Launch
                   ELSE IF context[current] = None THEN <<Do("connect"), Do("ready")>>
                   ELSE <<Do("ready")>>)
    BY DEF StartAccount, Require, Runs, Found
  <1>2. \A b \in Rest(c) : Rank(b[1]) > 22
    BY <1>1, Lowers, RankTable
  <1>3. /\ Do("connect") \in Steps /\ Do("ready") \in Steps
        /\ Rank(Do("connect")[1]) = 13 /\ Rank(Do("ready")[1]) = 17
    BY StepKinds, RankTable DEF Do, Plain, Awaits
  <1>4. CASE ~Running(current)
    <2>1. Goes(c, Launch)
      BY <1>1, <1>4
    <2>2. \A a \in Range(Launch) : Rank(a[1]) < 22
      <3>1. /\ Rank(Do("terminate")[1]) = 1 /\ Rank(Do("unserve")[1]) = 7 /\ Rank(Do("serve")[1]) = 9
            /\ Rank(Do("connect")[1]) = 13 /\ Rank(Do("open")[1]) = 15 /\ Rank(Do("ready")[1]) = 17
            /\ \A a \in Spawns : Rank(a[1]) = 10
        BY RankTable DEF Do, Spawns
      <3> QED
        BY <3>1, LaunchFacts
    <2>3. \A a \in Range(Launch), b \in Rest(c) : Before(a, b)
      BY <1>2, <2>2, RankType, Lower
    <2>4. Well(c) /\ Left(c)' = Range(Launch) \cup Rest(c) /\ stranded' = stranded
      BY <1>1, <2>1, <2>3, LaunchFacts, Advance
    <2> QED
      BY <1>1, <2>4 DEF Moved, Starts
  <1>5. CASE Running(current) /\ context[current] = None
    <2>1. Goes(c, <<Do("connect"), Do("ready")>>)
      BY <1>1, <1>5
    <2>2. /\ Before(Do("connect"), Do("ready"))
          /\ \A b \in Rest(c) : Before(Do("connect"), b) /\ Before(Do("ready"), b)
      BY <1>2, <1>3, RankType, Lower
    <2>3. Well(c) /\ Left(c)' = {Do("connect"), Do("ready")} \cup Rest(c) /\ stranded' = stranded
      BY <1>1, <1>3, <2>1, <2>2, Push2
    <2> QED
      BY <1>1, <1>5, <2>3 DEF Moved, Starts
  <1>6. CASE Running(current) /\ context[current] # None
    <2>1. Goes(c, <<Do("ready")>>)
      BY <1>1, <1>6
    <2>2. \A b \in Rest(c) : Before(Do("ready"), b)
      BY <1>2, <1>3, RankType, Lower
    <2>3. Well(c) /\ Left(c)' = {Do("ready")} \cup Rest(c) /\ stranded' = stranded
      BY <1>1, <1>3, <2>1, <2>2, Push1
    <2> QED
      BY <1>1, <2>3 DEF Moved, Starts
  <1> QED
    BY <1>4, <1>5, <1>6

LEMMA StopGoes ==
    ASSUME TypeOK, Form, NEW c \in Calls, StopAccount(c)
    PROVE  Well(c) /\ Moved(c)
  <1>1. Live(c) /\ Op(c) = "stop" /\ Found(c) /\ Goes(c, <<Do("terminate"), Do("unserve"), Do("stopped")>>)
    BY DEF StopAccount, Require, Runs, Found, Ending
  <1>2. \A b \in Rest(c) : Rank(b[1]) > 21
    BY <1>1, Lowers, RankTable
  <1>3. /\ Do("terminate") \in Steps /\ Do("unserve") \in Steps /\ Do("stopped") \in Steps
        /\ Rank(Do("terminate")[1]) = 1 /\ Rank(Do("unserve")[1]) = 7 /\ Rank(Do("stopped")[1]) = 18
    BY StepKinds, RankTable DEF Do, Plain
  <1>4. /\ Before(Do("terminate"), Do("unserve")) /\ Before(Do("terminate"), Do("stopped"))
        /\ Before(Do("unserve"), Do("stopped"))
        /\ \A b \in Rest(c) : /\ Before(Do("terminate"), b) /\ Before(Do("unserve"), b)
                              /\ Before(Do("stopped"), b)
    BY <1>2, <1>3, RankType, Lower
  <1>5. /\ Well(c) /\ stranded' = stranded
        /\ Left(c)' = {Do("terminate"), Do("unserve"), Do("stopped")} \cup Rest(c)
    BY <1>1, <1>3, <1>4, Push3
  <1> QED
    BY <1>1, <1>5 DEF Moved, StopsOrRecovers

LEMMA RecoverGoes ==
    ASSUME TypeOK, Form, NEW c \in Calls, RecoverAccount(c)
    PROVE  Well(c) /\ Moved(c)
  <1>1. /\ Live(c) /\ Op(c) = "recover" /\ Found(c)
        /\ IF Running(current) THEN Goes(c, <<<<"soft", 1>>, Do("ready")>>) ELSE Goes(c, <<Do("start")>>)
    BY DEF RecoverAccount, Require, Runs, Found
  <1>2. \A b \in Rest(c) : Rank(b[1]) > 28
    BY <1>1, Lowers, RankTable
  <1>3. /\ <<"soft", 1>> \in Steps /\ Do("ready") \in Steps /\ Do("start") \in Steps
        /\ Rank(<<"soft", 1>>[1]) = 12 /\ Rank(Do("ready")[1]) = 17 /\ Rank(Do("start")[1]) = 22
    BY StepKinds, RankTable DEF Do, Plain
  <1>4. /\ Before(<<"soft", 1>>, Do("ready"))
        /\ \A b \in Rest(c) : Before(<<"soft", 1>>, b) /\ Before(Do("ready"), b) /\ Before(Do("start"), b)
    BY <1>2, <1>3, RankType, Lower
  <1>5. CASE Running(current)
    <2>1. Well(c) /\ Left(c)' = {<<"soft", 1>>, Do("ready")} \cup Rest(c) /\ stranded' = stranded
      BY <1>1, <1>3, <1>4, <1>5, Push2
    <2> QED
      BY <1>1, <2>1 DEF Moved, StopsOrRecovers
  <1>6. CASE ~Running(current)
    <2>1. Well(c) /\ Left(c)' = {Do("start")} \cup Rest(c) /\ stranded' = stranded
      BY <1>1, <1>3, <1>4, <1>6, Push1
    <2> QED
      BY <1>1, <1>6, <2>1 DEF Moved, StopsOrRecovers
  <1> QED
    BY <1>5, <1>6

LEMMA Restarts ==
    ASSUME TypeOK, Form, NEW c \in Calls, Live(c), Op(c) \in {"proxy", "settings", "ensure", "install"}
    PROVE  /\ Goes(c, Program("restart")) \/ Goes(c, <<Do("stop"), Do("start")>>) =>
                  Well(c) /\ Left(c)' = {Do("stop"), Do("start")} \cup Rest(c) /\ stranded' = stranded
           /\ Goes(c, <<Do("stop")>>) =>
                  Well(c) /\ Left(c)' = {Do("stop")} \cup Rest(c) /\ stranded' = stranded
           /\ Goes(c, <<Do("start")>>) =>
                  Well(c) /\ Left(c)' = {Do("start")} \cup Rest(c) /\ stranded' = stranded
           /\ Goes(c, <<Do("others"), Do("stop"), Do("start")>>) =>
                  /\ Well(c) /\ stranded' = stranded
                  /\ Left(c)' = {Do("others"), Do("stop"), Do("start")} \cup Rest(c)
           /\ Goes(c, <<>>) => Well(c) /\ Left(c)' = Rest(c) /\ stranded' = stranded
  <1>1. \A b \in Rest(c) : Rank(b[1]) > 22
    BY Lowers, RankTable, RankType
  <1>2. /\ Do("others") \in Steps /\ Do("stop") \in Steps /\ Do("start") \in Steps
        /\ Rank(Do("others")[1]) = 20 /\ Rank(Do("stop")[1]) = 21 /\ Rank(Do("start")[1]) = 22
    BY StepKinds, RankTable DEF Do, Plain, Awaits
  <1>3. /\ Before(Do("others"), Do("stop")) /\ Before(Do("others"), Do("start"))
        /\ Before(Do("stop"), Do("start"))
        /\ \A b \in Rest(c) : Before(Do("others"), b) /\ Before(Do("stop"), b) /\ Before(Do("start"), b)
    BY <1>1, <1>2, RankType, Lower
  <1>4. Program("restart") = <<Do("stop"), Do("start")>>
    BY DEF Program
  <1>5. ASSUME Goes(c, <<Do("stop"), Do("start")>>)
        PROVE  Well(c) /\ Left(c)' = {Do("stop"), Do("start")} \cup Rest(c) /\ stranded' = stranded
    BY <1>2, <1>3, <1>5, Push2
  <1>6. ASSUME Goes(c, <<Do("stop")>>)
        PROVE  Well(c) /\ Left(c)' = {Do("stop")} \cup Rest(c) /\ stranded' = stranded
    BY <1>2, <1>3, <1>6, Push1
  <1>7. ASSUME Goes(c, <<Do("start")>>)
        PROVE  Well(c) /\ Left(c)' = {Do("start")} \cup Rest(c) /\ stranded' = stranded
    BY <1>2, <1>3, <1>7, Push1
  <1>8. ASSUME Goes(c, <<Do("others"), Do("stop"), Do("start")>>)
        PROVE  /\ Well(c) /\ stranded' = stranded
               /\ Left(c)' = {Do("others"), Do("stop"), Do("start")} \cup Rest(c)
    BY <1>2, <1>3, <1>8, Push3
  <1>9. Goes(c, <<>>) => Well(c) /\ Left(c)' = Rest(c) /\ stranded' = stranded
    BY Passing
  <1> QED
    BY <1>4, <1>5, <1>6, <1>7, <1>8, <1>9

LEMMA RestartGoes ==
    ASSUME TypeOK, Form, NEW c \in Calls,
           UpdateProxy(c) \/ UpdateSettings(c) \/ EnsureRunning(c) \/ InstallExtension(c)
    PROVE  Well(c) /\ Moved(c)
  <1>1. CASE UpdateProxy(c) \/ UpdateSettings(c) \/ EnsureRunning(c)
    <2>1. /\ Live(c) /\ Op(c) \in {"proxy", "settings", "ensure"} /\ Found(c)
          /\ Goes(c, Program("restart")) \/ Goes(c, <<Do("stop")>>) \/ Goes(c, <<Do("start")>>)
             \/ Goes(c, <<>>)
      BY <1>1 DEF UpdateProxy, UpdateSettings, EnsureRunning, Require, Runs, Found
    <2>2. /\ Well(c) /\ stranded' = stranded
          /\ \/ Left(c)' = {Do("stop"), Do("start")} \cup Rest(c)
             \/ Left(c)' = {Do("stop")} \cup Rest(c)
             \/ Left(c)' = {Do("start")} \cup Rest(c)
             \/ Left(c)' = Rest(c)
      BY <2>1, Restarts
    <2> QED
      BY <2>1, <2>2 DEF Moved, Delegates, Passed, Looks
  <1>2. CASE InstallExtension(c)
    <2>1. /\ Live(c) /\ Op(c) = "install" /\ Same
          /\ Goes(c, <<Do("others"), Do("stop"), Do("start")>>) \/ Goes(c, <<>>)
      BY <1>2 DEF InstallExtension, Runs, Same
    <2>2. /\ Well(c) /\ stranded' = stranded
          /\ \/ Left(c)' = {Do("others"), Do("stop"), Do("start")} \cup Rest(c)
             \/ Left(c)' = Rest(c)
      BY <2>1, Restarts
    <2> QED
      BY <2>1, <2>2 DEF Moved, Delegates, Passed
  <1> QED
    BY <1>1, <1>2

LEMMA TerminateGoes ==
    ASSUME TypeOK, Form, NEW c \in Calls, Terminate(c)
    PROVE  Well(c) /\ Moved(c)
  <1>1. /\ Live(c) /\ Op(c) = "terminate" /\ Same
        /\ Goes(c, (IF context[obj[c]] = None THEN <<>> ELSE <<Do("close")>>) \o <<Do("list")>>)
    BY DEF Terminate, Runs, Same
  <1>2. /\ Do("close") \in Steps /\ Do("list") \in Steps
        /\ Rank(Do("close")[1]) = 2 /\ Rank(Do("list")[1]) = 3 /\ Rank("terminate") = 1
    BY StepKinds, RankTable DEF Do, Plain, Awaits
  <1>3. Without(Ops(c), {"close", "list", "end", "kill", "clear"})
    BY <1>1, OpKinds DEF Form, Shape
  <1>4. \A b \in Rest(c) : Rank(b[1]) > 3
    <2> SUFFICES ASSUME NEW b \in Rest(c) PROVE Rank(b[1]) > 3
      OBVIOUS
    <2>1. b[1] \in Ops(c) /\ Rank(b[1]) > 1
      BY <1>1, <1>2, Lowers
    <2>2. Rank(b[1]) # 2 /\ Rank(b[1]) # 3
      BY <1>3, <2>1, RankInverse DEF Without
    <2> QED
      BY <2>1, <2>2, RankType
  <1>5. /\ Before(Do("close"), Do("list"))
        /\ \A b \in Rest(c) : Before(Do("close"), b) /\ Before(Do("list"), b)
    BY <1>2, <1>4, RankType, Lower
  <1>6. CASE context[obj[c]] = None
    <2>1. <<>> \o <<Do("list")>> = <<Do("list")>>
      BY <1>2, ConcatEmptySeq
    <2>2. Goes(c, <<Do("list")>>)
      BY <1>1, <1>6, <2>1
    <2>3. Well(c) /\ Left(c)' = {Do("list")} \cup Rest(c) /\ stranded' = stranded
      BY <1>1, <1>2, <1>5, <2>2, Push1
    <2> QED
      BY <1>1, <2>3 DEF Moved, Clears
  <1>7. CASE context[obj[c]] # None
    <2> DEFINE s == <<Do("close")>>
               t == <<Do("list")>>
    <2>1. /\ s \in Seq(Steps) /\ Ordered(s) /\ Range(s) = {Do("close")}
          /\ t \in Seq(Steps) /\ Ordered(t) /\ Range(t) = {Do("list")}
      BY <1>2, Short
    <2>2. Goes(c, s \o t)
      BY <1>1, <1>7
    <2> HIDE DEF s, t
    <2>3. /\ s \o t \in Seq(Steps) /\ Ordered(s \o t) /\ Range(s \o t) = {Do("close"), Do("list")}
      BY <1>5, <2>1, Join
    <2>4. \A a \in Range(s \o t), b \in Rest(c) : Before(a, b)
      BY <1>5, <2>3
    <2>5. Well(c) /\ Left(c)' = {Do("close"), Do("list")} \cup Rest(c) /\ stranded' = stranded
      BY <1>1, <2>2, <2>3, <2>4, Advance
    <2> QED
      BY <1>1, <2>5 DEF Moved, Clears
  <1> QED
    BY <1>6, <1>7

LEMMA EndAllGoes ==
    ASSUME TypeOK, Form, Bound, NEW c \in Calls, EndAll(c)
    PROVE  Well(c) /\ Moved(c)
  <1> DEFINE of == field[obj[c]]
  <1>1. Live(c) /\ Op(c) = "list" /\ Same /\ Goes(c, KillAll(of))
    BY DEF EndAll, Runs, Same, KillAll
  <1>2. obj[c] \in Objects
    BY <1>1, RankTable DEF Bound, Works
  <1>3. of \in [Fields -> Pids \cup {None}]
    BY <1>2 DEF TypeOK
  <1> HIDE DEF of
  <1>4. Without(Ops(c), {"end", "kill", "clear"})
    BY <1>1, OpKinds DEF Form, Shape
  <1>5. \A b \in Rest(c) : Rank(b[1]) > 6
    <2> SUFFICES ASSUME NEW b \in Rest(c) PROVE Rank(b[1]) > 6
      OBVIOUS
    <2>1. b[1] \in Ops(c) /\ Rank(b[1]) > 3
      BY <1>1, RankTable, Lowers
    <2>2. Rank(b[1]) # 4 /\ Rank(b[1]) # 5 /\ Rank(b[1]) # 6
      BY <1>4, <2>1, RankInverse DEF Without
    <2> QED
      BY <2>1, <2>2, RankType
  <1>6. \A a \in Range(KillAll(of)) : Rank(a[1]) < 7
    <2>1. Rank(Do("clear")[1]) = 6 /\ \A f \in Fields : Rank(<<"kill", of[f]>>[1]) = 5
      BY RankTable DEF Do
    <2> QED
      BY <1>3, <2>1, KillAllFacts
  <1>7. \A a \in Range(KillAll(of)), b \in Rest(c) : Before(a, b)
    BY <1>5, <1>6, RankType, Lower
  <1>8. Well(c) /\ Left(c)' = Range(KillAll(of)) \cup Rest(c) /\ stranded' = stranded
    BY <1>1, <1>3, <1>7, KillAllFacts, Advance
  <1>9. Left(c)' = {<<"kill", of[f]>> : f \in Fields} \cup {Do("clear")} \cup Rest(c)
    BY <1>3, <1>8, KillAllFacts
  <1> QED
    BY <1>1, <1>8, <1>9 DEF Moved, Clears, of

LEMMA KillGoes ==
    ASSUME TypeOK, Form, NEW c \in Calls, Kill(c)
    PROVE  Well(c) /\ Moved(c)
  <1>1. /\ Live(c) /\ Op(c) = "kill" /\ Same
        /\ Goes(c, IF Alive(Arg(c)) THEN <<<<"end", Arg(c)>>>> ELSE <<>>)
    BY DEF Kill, Runs, Same
  <1>2. <<"end", Arg(c)>> \in Steps /\ Rank(<<"end", Arg(c)>>[1]) = 4 /\ Rank("kill") = 5
    BY <1>1, OpKinds, StepKinds, RankTable
  <1>3. \A b \in Rest(c) : Before(<<"end", Arg(c)>>, b)
    BY <1>1, <1>2, Lowers
  <1>4. CASE Alive(Arg(c))
    <2>1. Well(c) /\ Left(c)' = {<<"end", Arg(c)>>} \cup Rest(c) /\ stranded' = stranded
      BY <1>1, <1>2, <1>3, <1>4, Push1
    <2> QED
      BY <1>1, <2>1 DEF Moved, Clears
  <1>5. CASE ~Alive(Arg(c))
    <2>1. Well(c) /\ Left(c)' = Rest(c) /\ stranded' = stranded
      BY <1>1, <1>5, Passing
    <2> QED
      BY <1>1, <1>5, <2>1 DEF Moved, Passed
  <1> QED
    BY <1>4, <1>5

LEMMA StopBridgeGoes ==
    ASSUME TypeOK, Form, NEW c \in Calls, StopBridge(c)
    PROVE  Well(c) /\ Moved(c)
  <1>1. /\ Live(c) /\ Op(c) = "unserve" /\ Same
        /\ Goes(c, IF serving THEN <<Do("drain")>> ELSE <<>>)
    BY DEF StopBridge, Runs, Same
  <1>2. Do("drain") \in Steps /\ Rank(Do("drain")[1]) = 8 /\ Rank("unserve") = 7
    BY StepKinds, RankTable DEF Do, Plain, Awaits
  <1>3. "drain" \notin Ops(c)
    BY <1>1, OpKinds DEF Form, Shape
  <1>4. \A b \in Rest(c) : Rank(b[1]) > 8
    <2> SUFFICES ASSUME NEW b \in Rest(c) PROVE Rank(b[1]) > 8
      OBVIOUS
    <2>1. b[1] \in Ops(c) /\ Rank(b[1]) > 7
      BY <1>1, <1>2, Lowers
    <2>2. Rank(b[1]) # 8
      BY <1>3, <2>1, RankInverse
    <2> QED
      BY <2>1, <2>2, RankType
  <1>5. \A b \in Rest(c) : Before(Do("drain"), b)
    BY <1>2, <1>4, RankType, Lower
  <1>6. CASE serving
    <2>1. Well(c) /\ Left(c)' = {Do("drain")} \cup Rest(c) /\ stranded' = stranded
      BY <1>1, <1>2, <1>5, <1>6, Push1
    <2> QED
      BY <1>1, <2>1 DEF Moved, Clears
  <1>7. CASE ~serving
    <2>1. Well(c) /\ Left(c)' = Rest(c) /\ stranded' = stranded
      BY <1>1, <1>7, Passing
    <2> QED
      BY <1>1, <2>1 DEF Moved, Passed
  <1> QED
    BY <1>6, <1>7

LEMMA SoftGoes ==
    ASSUME TypeOK, Form, NEW c \in Calls, SoftRecover(c)
    PROVE  Well(c) /\ Moved(c)
  <1> DEFINE k == <<"tried", Arg(c)>>
             t == <<Do("visit"), k>>
  <1>1. /\ Live(c) /\ Op(c) = "soft" /\ Same
        /\ Goes(c, (IF context[obj[c]] = None THEN <<Do("connect")>> ELSE <<>>) \o t)
    BY DEF SoftRecover, Runs, Same
  <1>2. Arg(c) \in Nat
    BY <1>1, OpKinds
  <1>3. /\ Do("connect") \in Steps /\ Do("visit") \in Steps /\ k \in Steps
        /\ Rank(Do("connect")[1]) = 13 /\ Rank(Do("visit")[1]) = 14 /\ Rank(k[1]) = 16
        /\ Rank("soft") = 12
    BY <1>2, StepKinds, RankTable DEF Do, Plain, Awaits
  <1>4. Without(Ops(c), {"connect", "visit", "tried", "open"})
    BY <1>1, OpKinds DEF Form, Shape, Without
  <1> HIDE DEF k
  <1>5. \A b \in Rest(c) : Rank(b[1]) > 16
    <2> SUFFICES ASSUME NEW b \in Rest(c) PROVE Rank(b[1]) > 16
      OBVIOUS
    <2>1. b[1] \in Ops(c) /\ Rank(b[1]) > 12
      BY <1>1, <1>3, Lowers
    <2>2. Rank(b[1]) # 13 /\ Rank(b[1]) # 14 /\ Rank(b[1]) # 15 /\ Rank(b[1]) # 16
      BY <1>4, <2>1, RankInverse DEF Without
    <2> QED
      BY <2>1, <2>2, RankType
  <1>6. /\ Before(Do("connect"), Do("visit")) /\ Before(Do("connect"), k) /\ Before(Do("visit"), k)
        /\ \A b \in Rest(c) : Before(Do("connect"), b) /\ Before(Do("visit"), b) /\ Before(k, b)
    BY <1>3, <1>5, RankType, Lower
  <1>7. t \in Seq(Steps) /\ Ordered(t) /\ Range(t) = {Do("visit"), k}
    BY <1>3, <1>6, Short
  <1> DEFINE s == <<Do("connect")>>
  <1>8. s \in Seq(Steps) /\ Ordered(s) /\ Range(s) = {Do("connect")}
    BY <1>3, Short
  <1> HIDE DEF t
  <1>9. CASE context[obj[c]] = None
    <2>1. Goes(c, s \o t)
      BY <1>1, <1>9
    <2> HIDE DEF s
    <2>2. /\ s \o t \in Seq(Steps) /\ Ordered(s \o t)
          /\ Range(s \o t) = {Do("connect"), Do("visit"), k}
      <3>1. \A a \in Range(s), b \in Range(t) : Before(a, b)
        BY <1>6, <1>7, <1>8
      <3>2. /\ s \o t \in Seq(Steps) /\ Ordered(s \o t)
            /\ Range(s \o t) = Range(s) \cup Range(t)
        BY <1>7, <1>8, <3>1, Join
      <3> QED
        BY <1>7, <1>8, <3>2
    <2>3. \A a \in Range(s \o t), b \in Rest(c) : Before(a, b)
      BY <1>6, <2>2
    <2>4. Well(c) /\ Left(c)' = {Do("connect"), Do("visit"), k} \cup Rest(c) /\ stranded' = stranded
      BY <1>1, <2>1, <2>2, <2>3, Advance
    <2> QED
      BY <1>1, <2>4 DEF Moved, Tries, k
  <1>10. CASE context[obj[c]] # None
    <2>1. <<>> \o t = t
      BY <1>7, ConcatEmptySeq
    <2>2. Goes(c, t)
      BY <1>1, <1>10, <2>1
    <2>3. \A a \in Range(t), b \in Rest(c) : Before(a, b)
      BY <1>6, <1>7
    <2>4. Well(c) /\ Left(c)' = {Do("visit"), k} \cup Rest(c) /\ stranded' = stranded
      BY <1>1, <1>7, <2>2, <2>3, Advance
    <2> QED
      BY <1>1, <2>4 DEF Moved, Tries, k
  <1> QED
    BY <1>9, <1>10

LEMMA ExecuteGoes ==
    ASSUME TypeOK, Form, NEW c \in Calls, Execute(c)
    PROVE  Well(c) /\ Moved(c)
  <1>1. /\ Live(c) /\ Op(c) = "work" /\ Same
        /\ Goes(c, <<>>) \/ Raise(c) \/ Goes(c, <<Do("recover"), Do("generate")>>)
    BY DEF Execute, Runs, Same
  <1>2. /\ Do("recover") \in Steps /\ Do("generate") \in Steps /\ Rank("work") = 26
        /\ Rank(Do("recover")[1]) = 28 /\ Rank(Do("generate")[1]) = 29
    BY StepKinds, RankTable DEF Do, Plain, Awaits
  <1>3. Without(Ops(c), {"failed", "recover", "generate"})
    BY <1>1, OpKinds DEF Form, Shape
  <1>4. \A b \in Rest(c) : Rank(b[1]) > 29
    <2> SUFFICES ASSUME NEW b \in Rest(c) PROVE Rank(b[1]) > 29
      OBVIOUS
    <2>1. b[1] \in Ops(c) /\ Rank(b[1]) > 26
      BY <1>1, <1>2, Lowers
    <2>2. Rank(b[1]) # 27 /\ Rank(b[1]) # 28 /\ Rank(b[1]) # 29
      BY <1>3, <2>1, RankInverse DEF Without
    <2> QED
      BY <2>1, <2>2, RankType
  <1>5. /\ Before(Do("recover"), Do("generate"))
        /\ \A b \in Rest(c) : Before(Do("recover"), b) /\ Before(Do("generate"), b)
    BY <1>2, <1>4, RankType, Lower
  <1>6. CASE Goes(c, <<>>)
    <2>1. Well(c) /\ Left(c)' = Rest(c) /\ stranded' = stranded
      BY <1>1, <1>6, Passing
    <2> QED
      BY <1>1, <2>1 DEF Moved, Passed
  <1>7. CASE Raise(c)
    BY <1>1, <1>7, Raises DEF Moved, Fallen
  <1>8. CASE Goes(c, <<Do("recover"), Do("generate")>>)
    <2>1. Well(c) /\ Left(c)' = {Do("recover"), Do("generate")} \cup Rest(c) /\ stranded' = stranded
      BY <1>1, <1>2, <1>5, <1>8, Push2
    <2> QED
      BY <1>1, <2>1 DEF Moved, Delegates
  <1> QED
    BY <1>1, <1>6, <1>7, <1>8

LEMMA TimeOutGoes ==
    ASSUME TypeOK, Form, NEW c \in Calls, JobTimesOut(c)
    PROVE  Well(c) /\ Moved(c)
  <1>1. /\ "generate" \in Ops(c) /\ Live(c) /\ todo' = [todo EXCEPT ![c] = HandleFailure] /\ Same
        /\ stranded' = stranded
    BY HasOps DEF JobTimesOut, Same
  <1>2. Well(c) /\ Left(c)' = {Do("failed"), Do("recover"), Do("requeue")}
    BY <1>1, HandleFailureFacts, Replaced
  <1> QED
    BY <1>1, <1>2 DEF Moved, Fallen

LEMMA RaiseGoes ==
    ASSUME TypeOK, Form, NEW c \in Calls, Live(c), Same, Raise(c)
    PROVE  Well(c) /\ Moved(c)
  BY Raises DEF Moved, Fallen

LEMMA PassGoes ==
    ASSUME TypeOK, Form, NEW c \in Calls, Live(c), Goes(c, <<>>),
           Same \/ (Op(c) \in Looks /\ Found(c)), Op(c) \notin {"terminate", "list", "stop", "kill"}
    PROVE  Well(c) /\ Moved(c)
  <1>1. Well(c) /\ Left(c)' = Rest(c) /\ stranded' = stranded
    BY Passing
  <1> QED
    BY <1>1 DEF Moved, Passed

LEMMA Moves ==
    ASSUME TypeOK, Form, Bound, NEW c \in Calls, Step(c) \/ AwaitRaises(c)
    PROVE  Well(c) /\ Moved(c)
  <1>1. CASE Missing(c) \/ AwaitRaises(c)
    <2>1. Live(c) /\ Raise(c) /\ Same
      BY <1>1 DEF Missing, AwaitRaises, Runs, Same
    <2> QED
      BY <2>1, RaiseGoes
  <1>2. CASE \/ Stopped(c) \/ Finishes(c, "ready", "READY") \/ Finishes(c, "broken", "BROKEN_SESSION")
             \/ Remove(c) \/ CloseContext(c) \/ EndProcess(c) \/ ClearFields(c) \/ Spawn(c) \/ Pass(c)
    <2>1. Live(c) /\ Goes(c, <<>>) /\ Same /\ Op(c) \notin {"terminate", "list", "stop", "kill"}
      BY <1>2 DEF Stopped, Finishes, Remove, CloseContext, EndProcess, ClearFields, Spawn, Pass,
                  Runs, Same
    <2> QED
      BY <2>1, PassGoes
  <1>3. CASE MarkJobStarted(c) \/ MarkJobFinished(c)
    <2>1. /\ Live(c) /\ Goes(c, <<>>) /\ Op(c) \in Looks /\ Found(c)
          /\ Op(c) \notin {"terminate", "list", "stop", "kill"}
      BY <1>3 DEF MarkJobStarted, MarkJobFinished, Require, Runs, Looks, Found
    <2> QED
      BY <2>1, PassGoes
  <1>4. CASE StartBridge(c) \/ Connect(c) \/ UsePage(c)
    <2>1. /\ Live(c) /\ Same /\ (Goes(c, <<>>) \/ Raise(c))
          /\ Op(c) \notin {"terminate", "list", "stop", "kill"}
      BY <1>4 DEF StartBridge, Connect, UsePage, Runs, Same
    <2> QED
      BY <2>1, PassGoes, RaiseGoes
  <1> QED
    BY <1>1, <1>2, <1>3, <1>4, StartGoes, StopGoes, RecoverGoes, RestartGoes, TerminateGoes,
       EndAllGoes, KillGoes, StopBridgeGoes, SoftGoes, ExecuteGoes, TimeOutGoes DEF Step

-----------------------------------------------------------------------------
(* The shape of what is left. *)

LEMMA ShapePassed ==
    ASSUME NEW m, NEW R, NEW s \in BOOLEAN, NEW s2 \in BOOLEAN,
           Shape({m} \cup R, s), Follow(m, R), s => s2 \/ m = "spawn"
    PROVE  Shape(R, s2)
  <1>1. /\ Rank("terminate") = 1 /\ Rank("close") = 2 /\ Rank("list") = 3 /\ Rank("end") = 4
        /\ Rank("kill") = 5 /\ Rank("clear") = 6 /\ Rank("unserve") = 7 /\ Rank("serve") = 9
        /\ Rank("spawn") = 10 /\ Rank("connect") = 13 /\ Rank("visit") = 14 /\ Rank("open") = 15
        /\ Rank("tried") = 16 /\ Rank("work") = 26 /\ Rank("generate") = 29 /\ Rank("finished") = 30
        /\ Rank("stopped") = 18 /\ Rank("unserve") = 7 /\ Rank("drain") = 8 /\ Rank("remove") = 36
    BY RankTable
  <1> QED
    BY <1>1, RankType DEF Shape, Without, Follow, Clearing

(* The names of the steps that a call puts before the rest. *)
Pushes(m, N) ==
    \/ m = "start" /\ N = {"terminate", "unserve", "serve", "spawn", "connect", "open", "ready"}
    \/ m = "start" /\ N = {"connect", "ready"}
    \/ m = "start" /\ N = {"ready"}
    \/ m = "stop" /\ N = {"terminate", "unserve", "stopped"}
    \/ m = "recover" /\ N = {"soft", "ready"}
    \/ m = "recover" /\ N = {"start"}
    \/ m \in {"proxy", "settings", "ensure"} /\ N \subseteq {"stop", "start"}
    \/ m = "install" /\ N = {"others", "stop", "start"}
    \/ m = "work" /\ N = {"recover", "generate"}
    \/ m = "terminate" /\ N \subseteq {"close", "list"} /\ "list" \in N
    \/ m = "list" /\ N = {"kill", "clear"}
    \/ m = "kill" /\ N = {"end"}
    \/ m = "unserve" /\ N = {"drain"}
    \/ m = "soft" /\ N \subseteq {"connect", "visit", "tried"} /\ "tried" \in N

LEMMA ShapeGoes ==
    ASSUME NEW m, NEW R, NEW N, NEW s \in BOOLEAN, NEW s2 \in BOOLEAN,
           Shape({m} \cup R, s), Follow(m, R), s => s2,
           Pushes(m, N), "spawn" \in N => s2
    PROVE  Shape(N \cup R, s2)
  <1>1. /\ Rank("terminate") = 1 /\ Rank("close") = 2 /\ Rank("list") = 3 /\ Rank("end") = 4
        /\ Rank("kill") = 5 /\ Rank("clear") = 6 /\ Rank("unserve") = 7 /\ Rank("drain") = 8
        /\ Rank("serve") = 9 /\ Rank("spawn") = 10 /\ Rank("pause") = 11 /\ Rank("soft") = 12
        /\ Rank("connect") = 13 /\ Rank("visit") = 14 /\ Rank("open") = 15 /\ Rank("tried") = 16
        /\ Rank("ready") = 17 /\ Rank("stopped") = 18 /\ Rank("others") = 20 /\ Rank("stop") = 21
        /\ Rank("start") = 22 /\ Rank("assigned") = 23 /\ Rank("ensure") = 24 /\ Rank("started") = 25
        /\ Rank("work") = 26 /\ Rank("recover") = 28 /\ Rank("generate") = 29
        /\ Rank("finished") = 30 /\ Rank("proxy") = 33 /\ Rank("settings") = 34
        /\ Rank("install") = 35 /\ Rank("remove") = 36
    BY RankTable
  <1>2. CASE m = "start" /\ N = {"terminate", "unserve", "serve", "spawn", "connect", "open", "ready"}
    BY <1>1, <1>2, RankType DEF Shape, Without, Follow, Clearing
  <1>3. CASE m = "start" /\ N = {"connect", "ready"}
    BY <1>1, <1>3, RankType DEF Shape, Without, Follow, Clearing
  <1>4. CASE m = "start" /\ N = {"ready"}
    BY <1>1, <1>4, RankType DEF Shape, Without, Follow, Clearing
  <1>5. CASE m = "stop" /\ N = {"terminate", "unserve", "stopped"}
    BY <1>1, <1>5, RankType DEF Shape, Without, Follow, Clearing
  <1>6. CASE m = "recover" /\ N = {"soft", "ready"}
    BY <1>1, <1>6, RankType DEF Shape, Without, Follow, Clearing
  <1>7. CASE m = "recover" /\ N = {"start"}
    BY <1>1, <1>7, RankType DEF Shape, Without, Follow, Clearing
  <1>8. CASE m \in {"proxy", "settings", "ensure"} /\ N \subseteq {"stop", "start"}
    BY <1>1, <1>8, RankType DEF Shape, Without, Follow, Clearing
  <1>9. CASE m = "install" /\ N = {"others", "stop", "start"}
    BY <1>1, <1>9, RankType DEF Shape, Without, Follow, Clearing
  <1>10. CASE m = "work" /\ N = {"recover", "generate"}
    BY <1>1, <1>10, RankType DEF Shape, Without, Follow, Clearing
  <1>11. CASE m = "terminate" /\ N \subseteq {"close", "list"} /\ "list" \in N
    <2>1. N = {"close", "list"} \/ N = {"list"}
      BY <1>11
    <2>2. CASE N = {"close", "list"}
      BY <1>1, <1>11, <2>2, RankType DEF Shape, Without, Follow, Clearing
    <2>3. CASE N = {"list"}
      BY <1>1, <1>11, <2>3, RankType DEF Shape, Without, Follow, Clearing
    <2> QED
      BY <2>1, <2>2, <2>3
  <1>12. CASE m = "list" /\ N = {"kill", "clear"}
    BY <1>1, <1>12, RankType DEF Shape, Without, Follow, Clearing
  <1>13. CASE m = "kill" /\ N = {"end"}
    BY <1>1, <1>13, RankType DEF Shape, Without, Follow, Clearing
  <1>14. CASE m = "unserve" /\ N = {"drain"}
    BY <1>1, <1>14, RankType DEF Shape, Without, Follow, Clearing
  <1>15. CASE m = "soft" /\ N \subseteq {"connect", "visit", "tried"} /\ "tried" \in N
    BY <1>1, <1>15, RankType DEF Shape, Without, Follow, Clearing
  <1> QED
    BY <1>2, <1>3, <1>4, <1>5, <1>6, <1>7, <1>8, <1>9, <1>10, <1>11, <1>12, <1>13, <1>14, <1>15
       DEF Pushes

(* After an exception in an attempt of a recovery, and at the end of all. *)
LEMMA ShapeRaised ==
    ASSUME NEW O, NEW N, NEW s \in BOOLEAN, NEW s2 \in BOOLEAN, Shape(O, s)
    PROVE  /\ "tried" \in O /\ (N = {"pause", "soft"}
              \/ (s2 /\ N = {"terminate", "spawn", "connect", "open", "ready"}))
              => Shape(N \cup {n \in O : Rank(n) > Rank("tried")}, s2)
           /\ N \in {{"broken"}, {"failed", "recover", "requeue"}, {}} => Shape(N, s2)
  <1>1. /\ Rank("terminate") = 1 /\ Rank("close") = 2 /\ Rank("list") = 3 /\ Rank("end") = 4
        /\ Rank("kill") = 5 /\ Rank("clear") = 6 /\ Rank("unserve") = 7 /\ Rank("drain") = 8
        /\ Rank("serve") = 9 /\ Rank("spawn") = 10 /\ Rank("pause") = 11 /\ Rank("soft") = 12
        /\ Rank("connect") = 13 /\ Rank("visit") = 14 /\ Rank("open") = 15 /\ Rank("tried") = 16
        /\ Rank("work") = 26 /\ Rank("finished") = 30
    BY RankTable
  <1>2. CASE "tried" \in O /\ N = {"pause", "soft"}
    BY <1>1, <1>2, RankType DEF Shape, Without, Clearing
  <1>3. CASE "tried" \in O /\ s2 /\ N = {"terminate", "spawn", "connect", "open", "ready"}
    BY <1>1, <1>3, RankType DEF Shape, Without, Clearing
  <1>4. N \in {{"broken"}, {"failed", "recover", "requeue"}, {}} => Shape(N, s2)
    BY <1>1, RankType DEF Shape, Without, Clearing
  <1> QED
    BY <1>2, <1>3, <1>4

(* The step puts steps with the names in N before the rest: spawns for all *)
(* fields or for none.                                                     *)
Adds(c, N) ==
    /\ Ops(c)' = N \cup Names(Rest(c)) /\ Rest(c) \subseteq Left(c)'
    /\ \A a \in Left(c)' : a \in Rest(c) \/ a[1] \in N
    /\ \A f : <<"spawn", f>> \in Left(c)' <=> ("spawn" \in N /\ f \in Fields) \/ <<"spawn", f>> \in Rest(c)
Pushed(c, N) ==
    /\ (N = {} /\ Op(c) \notin {"terminate", "list", "stop"}) \/ Pushes(Op(c), N)
    /\ Adds(c, N)
    /\ stranded' = stranded
    /\ Same \/ (Found(c) /\ Rank(Op(c)) > 20)
    /\ Op(c) \in {"start", "stop", "recover"} /\ N # {} => Found(c)

LEMMA DoName == \A n : Do(n)[1] = n
  BY DEF Do

LEMMA NoSpawn ==
    ASSUME NEW a, a[1] # "spawn" PROVE \A f : <<"spawn", f>> # a
  OBVIOUS

LEMMA Adds0 ==
    ASSUME NEW c \in Calls, Left(c)' = Rest(c) PROVE Adds(c, {})
  BY DEF Adds, Ops

LEMMA Adds1 ==
    ASSUME NEW c \in Calls, NEW x, x[1] # "spawn", Left(c)' = {x} \cup Rest(c)
    PROVE  Adds(c, {x[1]})
  <1>1. Ops(c)' = {x[1]} \cup Names(Rest(c))
    BY DEF Ops, Names
  <1>2. ASSUME NEW f PROVE <<"spawn", f>> \in Left(c)' <=> <<"spawn", f>> \in Rest(c)
    BY NoSpawn
  <1>3. "spawn" \notin {x[1]}
    OBVIOUS
  <1> QED
    BY <1>1, <1>2, <1>3 DEF Adds

LEMMA Adds2 ==
    ASSUME NEW c \in Calls, NEW x, NEW y, x[1] # "spawn", y[1] # "spawn",
           Left(c)' = {x, y} \cup Rest(c)
    PROVE  Adds(c, {x[1], y[1]})
  <1>1. Ops(c)' = {x[1], y[1]} \cup Names(Rest(c))
    BY DEF Ops, Names
  <1>2. ASSUME NEW f PROVE <<"spawn", f>> \in Left(c)' <=> <<"spawn", f>> \in Rest(c)
    BY NoSpawn
  <1>3. "spawn" \notin {x[1], y[1]}
    OBVIOUS
  <1> QED
    BY <1>1, <1>2, <1>3 DEF Adds

LEMMA Adds3 ==
    ASSUME NEW c \in Calls, NEW x, NEW y, NEW z, x[1] # "spawn", y[1] # "spawn", z[1] # "spawn",
           Left(c)' = {x, y, z} \cup Rest(c)
    PROVE  Adds(c, {x[1], y[1], z[1]})
  <1>1. Ops(c)' = {x[1], y[1], z[1]} \cup Names(Rest(c))
    BY DEF Ops, Names
  <1>2. ASSUME NEW f PROVE <<"spawn", f>> \in Left(c)' <=> <<"spawn", f>> \in Rest(c)
    BY NoSpawn
  <1>3. "spawn" \notin {x[1], y[1], z[1]}
    OBVIOUS
  <1> QED
    BY <1>1, <1>2, <1>3 DEF Adds

LEMMA NamesOfSpawns == Names(Spawns) = {"spawn"} /\ \A f : <<"spawn", f>> \in Spawns <=> f \in Fields
  <1>1. \A a \in Spawns : a[1] = "spawn"
    BY DEF Spawns
  <1>2. <<"spawn", "chrome">> \in Spawns
    BY FieldTypes DEF Spawns
  <1>3. "spawn" \in Names(Spawns)
    BY <1>1, <1>2 DEF Names
  <1>4. \A n \in Names(Spawns) : n = "spawn"
    BY <1>1 DEF Names
  <1>5. \A f : <<"spawn", f>> \in Spawns <=> f \in Fields
    BY DEF Spawns
  <1> QED
    BY <1>3, <1>4, <1>5

LEMMA AddsLaunch ==
    ASSUME NEW c \in Calls, Left(c)' = Range(Launch) \cup Rest(c)
    PROVE  Adds(c, {"terminate", "unserve", "serve", "spawn", "connect", "open", "ready"})
  <1> DEFINE Y == {Do("terminate"), Do("unserve"), Do("serve"), Do("connect"), Do("open"), Do("ready")}
  <1>1. Names(Y) = {"terminate", "unserve", "serve", "connect", "open", "ready"}
    BY DoName DEF Names
  <1>2. \A a \in Y : a[1] # "spawn"
    BY DoName
  <1>3. Range(Launch) = Spawns \cup Y
    BY LaunchFacts
  <1> HIDE DEF Y
  <1>4. Names(Range(Launch)) = {"spawn"} \cup {"terminate", "unserve", "serve", "connect", "open", "ready"}
    BY <1>1, <1>3, NamesOf, NamesOfSpawns
  <1>5. \A f : <<"spawn", f>> \in Range(Launch) <=> f \in Fields
    BY <1>2, <1>3, NoSpawn, NamesOfSpawns
  <1>6. Ops(c)' = Names(Range(Launch)) \cup Names(Rest(c))
    BY NamesOf DEF Ops
  <1>7. {"spawn"} \cup {"terminate", "unserve", "serve", "connect", "open", "ready"}
        = {"terminate", "unserve", "serve", "spawn", "connect", "open", "ready"}
    OBVIOUS
  <1>8. \A a \in Range(Launch) : a[1] \in Names(Range(Launch))
    BY DEF Names
  <1> QED
    BY <1>4, <1>5, <1>6, <1>7, <1>8 DEF Adds

LEMMA MovedOps ==
    ASSUME TypeOK, Form, NEW c \in Calls, Moved(c)
    PROVE  Fallen(c) \/ \E N : Pushed(c, N)
  <1>1. Live(c) /\ (Fallen(c) \/ stranded' = stranded)
    BY DEF Moved
  <1>2. /\ Op(c) \in Looks \cup {"start", "stop", "recover"} => Rank(Op(c)) > 20
        /\ Op(c) \notin Looks \/ Op(c) \notin {"start", "stop", "recover"}
    BY RankTable DEF Looks
  <1>3. CASE Passed(c) /\ stranded' = stranded
    <2>1. Pushed(c, {})
      BY <1>2, <1>3, Adds0 DEF Pushed, Passed
    <2> QED
      BY <2>1
  <1>4. CASE Starts(c) /\ stranded' = stranded
    <2>1. CASE Left(c)' = Range(Launch) \cup Rest(c)
      <3> DEFINE N == {"terminate", "unserve", "serve", "spawn", "connect", "open", "ready"}
      <3>1. Adds(c, N)
        BY <2>1, AddsLaunch
      <3>2. Pushes(Op(c), N)
        BY <1>4 DEF Pushes, Starts
      <3> HIDE DEF N
      <3>3. Pushed(c, N)
        BY <1>4, <1>2, <3>1, <3>2 DEF Pushed, Starts
      <3> QED
        BY <3>3
    <2>2. CASE Left(c)' = {Do("connect"), Do("ready")} \cup Rest(c)
      <3>1. Do("connect")[1] = "connect" /\ Do("ready")[1] = "ready"
        BY DoName
      <3>2. Adds(c, {"connect", "ready"})
        BY <2>2, <3>1, Adds2
      <3>3. Pushed(c, {"connect", "ready"})
        BY <2>2, <1>4, <1>2, <3>2 DEF Pushed, Starts, Pushes
      <3> QED
        BY <3>3
    <2>3. CASE Left(c)' = {Do("ready")} \cup Rest(c)
      <3>1. Do("ready")[1] = "ready"
        BY DoName
      <3>2. Adds(c, {"ready"})
        BY <2>3, <3>1, Adds1
      <3>3. Pushed(c, {"ready"})
        BY <2>3, <1>4, <1>2, <3>2 DEF Pushed, Starts, Pushes
      <3> QED
        BY <3>3
    <2> QED
      BY <1>4, <2>1, <2>2, <2>3 DEF Starts
  <1>5. CASE StopsOrRecovers(c) /\ stranded' = stranded
    <2>1. CASE /\ Op(c) = "stop"
               /\ Left(c)' = {Do("terminate"), Do("unserve"), Do("stopped")} \cup Rest(c)
      <3>1. Do("terminate")[1] = "terminate" /\ Do("unserve")[1] = "unserve" /\ Do("stopped")[1] = "stopped"
        BY DoName
      <3>2. Adds(c, {"terminate", "unserve", "stopped"})
        BY <2>1, <3>1, Adds3
      <3>3. Pushed(c, {"terminate", "unserve", "stopped"})
        BY <2>1, <1>5, <1>2, <3>2 DEF Pushed, StopsOrRecovers, Pushes
      <3> QED
        BY <3>3
    <2>2. CASE Op(c) = "recover" /\ Left(c)' = {<<"soft", 1>>, Do("ready")} \cup Rest(c)
      <3>1. <<"soft", 1>>[1] = "soft" /\ Do("ready")[1] = "ready"
        BY DoName
      <3>2. Adds(c, {"soft", "ready"})
        BY <2>2, <3>1, Adds2
      <3>3. Pushed(c, {"soft", "ready"})
        BY <2>2, <1>5, <1>2, <3>2 DEF Pushed, StopsOrRecovers, Pushes
      <3> QED
        BY <3>3
    <2>3. CASE Op(c) = "recover" /\ Left(c)' = {Do("start")} \cup Rest(c)
      <3>1. Do("start")[1] = "start"
        BY DoName
      <3>2. Adds(c, {"start"})
        BY <2>3, <3>1, Adds1
      <3>3. Pushed(c, {"start"})
        BY <2>3, <1>5, <1>2, <3>2 DEF Pushed, StopsOrRecovers, Pushes
      <3> QED
        BY <3>3
    <2> QED
      BY <1>5, <2>1, <2>2, <2>3 DEF StopsOrRecovers
  <1>6. CASE Delegates(c) /\ stranded' = stranded
    <2>1. CASE /\ Op(c) \in {"proxy", "settings", "ensure"} /\ Found(c)
               /\ Left(c)' = {Do("stop"), Do("start")} \cup Rest(c)
      <3>1. Do("stop")[1] = "stop" /\ Do("start")[1] = "start"
        BY DoName
      <3>2. Adds(c, {"stop", "start"})
        BY <2>1, <3>1, Adds2
      <3>3. Pushed(c, {"stop", "start"})
        BY <2>1, <1>6, <1>2, <3>2 DEF Pushed, Delegates, Pushes, Looks
      <3> QED
        BY <3>3
    <2>2. CASE /\ Op(c) \in {"proxy", "settings", "ensure"} /\ Found(c)
               /\ Left(c)' = {Do("stop")} \cup Rest(c)
      <3>1. Do("stop")[1] = "stop"
        BY DoName
      <3>2. Adds(c, {"stop"})
        BY <2>2, <3>1, Adds1
      <3>3. Pushed(c, {"stop"})
        BY <2>2, <1>6, <1>2, <3>2 DEF Pushed, Delegates, Pushes, Looks
      <3> QED
        BY <3>3
    <2>3. CASE /\ Op(c) \in {"proxy", "settings", "ensure"} /\ Found(c)
               /\ Left(c)' = {Do("start")} \cup Rest(c)
      <3>1. Do("start")[1] = "start"
        BY DoName
      <3>2. Adds(c, {"start"})
        BY <2>3, <3>1, Adds1
      <3>3. Pushed(c, {"start"})
        BY <2>3, <1>6, <1>2, <3>2 DEF Pushed, Delegates, Pushes, Looks
      <3> QED
        BY <3>3
    <2>4. CASE /\ Op(c) = "install" /\ Same
               /\ Left(c)' = {Do("others"), Do("stop"), Do("start")} \cup Rest(c)
      <3>1. Do("others")[1] = "others" /\ Do("stop")[1] = "stop" /\ Do("start")[1] = "start"
        BY DoName
      <3>2. Adds(c, {"others", "stop", "start"})
        BY <2>4, <3>1, Adds3
      <3>3. Pushed(c, {"others", "stop", "start"})
        BY <2>4, <1>6, <1>2, <3>2 DEF Pushed, Delegates, Pushes, Looks
      <3> QED
        BY <3>3
    <2>5. CASE Op(c) = "work" /\ Same /\ Left(c)' = {Do("recover"), Do("generate")} \cup Rest(c)
      <3>1. Do("recover")[1] = "recover" /\ Do("generate")[1] = "generate"
        BY DoName
      <3>2. Adds(c, {"recover", "generate"})
        BY <2>5, <3>1, Adds2
      <3>3. Pushed(c, {"recover", "generate"})
        BY <2>5, <1>6, <1>2, <3>2 DEF Pushed, Delegates, Pushes, Looks
      <3> QED
        BY <3>3
    <2> QED
      BY <1>6, <2>1, <2>2, <2>3, <2>4, <2>5 DEF Delegates
  <1>7. CASE Clears(c) /\ stranded' = stranded
    <2>1. CASE Op(c) = "terminate" /\ Left(c)' = {Do("close"), Do("list")} \cup Rest(c)
      <3>1. Do("close")[1] = "close" /\ Do("list")[1] = "list"
        BY DoName
      <3>2. Adds(c, {"close", "list"})
        BY <2>1, <3>1, Adds2
      <3>3. Pushed(c, {"close", "list"})
        BY <2>1, <1>7, <1>2, <3>2 DEF Pushed, Clears, Pushes
      <3> QED
        BY <3>3
    <2>2. CASE Op(c) = "terminate" /\ Left(c)' = {Do("list")} \cup Rest(c)
      <3>1. Do("list")[1] = "list"
        BY DoName
      <3>2. Adds(c, {"list"})
        BY <2>2, <3>1, Adds1
      <3>3. Pushed(c, {"list"})
        BY <2>2, <1>7, <1>2, <3>2 DEF Pushed, Clears, Pushes
      <3> QED
        BY <3>3
    <2>3. CASE /\ Op(c) = "list"
               /\ Left(c)' = {<<"kill", field[obj[c]][f]>> : f \in Fields} \cup {Do("clear")} \cup Rest(c)
      <3> DEFINE X == {<<"kill", field[obj[c]][f]>> : f \in Fields}
      <3>1. \A a \in X : a[1] = "kill"
        OBVIOUS
      <3>9. <<"kill", field[obj[c]]["chrome"]>> \in X
        BY FieldTypes
      <3> HIDE DEF X
      <3>2. Names(X \cup {Do("clear")}) = {"kill", "clear"}
        BY <3>1, <3>9, DoName DEF Names
      <3>3. Left(c)' = (X \cup {Do("clear")}) \cup Rest(c)
        BY <2>3 DEF X
      <3>4. Ops(c)' = {"kill", "clear"} \cup Names(Rest(c))
        BY <3>2, <3>3, NamesOf DEF Ops
      <3>5. \A f : <<"spawn", f>> \in Left(c)' <=> <<"spawn", f>> \in Rest(c)
        BY <3>1, <3>3, NoSpawn, DoName
      <3>8. \A a \in X \cup {Do("clear")} : a[1] \in {"kill", "clear"}
        BY <3>1, DoName
      <3>6. Adds(c, {"kill", "clear"})
        BY <3>3, <3>4, <3>5, <3>8 DEF Adds
      <3>7. Pushed(c, {"kill", "clear"})
        BY <2>3, <1>7, <1>2, <3>6 DEF Pushed, Clears, Pushes
      <3> QED
        BY <3>7
    <2>4. CASE Op(c) = "kill" /\ Left(c)' = {<<"end", Arg(c)>>} \cup Rest(c)
      <3>1. <<"end", Arg(c)>>[1] = "end"
        BY DoName
      <3>2. Adds(c, {"end"})
        BY <2>4, <3>1, Adds1
      <3>3. Pushed(c, {"end"})
        BY <2>4, <1>7, <1>2, <3>2 DEF Pushed, Clears, Pushes
      <3> QED
        BY <3>3
    <2>5. CASE Op(c) = "unserve" /\ Left(c)' = {Do("drain")} \cup Rest(c)
      <3>1. Do("drain")[1] = "drain"
        BY DoName
      <3>2. Adds(c, {"drain"})
        BY <2>5, <3>1, Adds1
      <3>3. Pushed(c, {"drain"})
        BY <2>5, <1>7, <1>2, <3>2 DEF Pushed, Clears, Pushes
      <3> QED
        BY <3>3
    <2> QED
      BY <1>7, <2>1, <2>2, <2>3, <2>4, <2>5 DEF Clears
  <1>8. CASE Tries(c) /\ stranded' = stranded
    <2>1. CASE Left(c)' = {Do("connect"), Do("visit"), <<"tried", Arg(c)>>} \cup Rest(c)
      <3>1. Do("connect")[1] = "connect" /\ Do("visit")[1] = "visit" /\ <<"tried", Arg(c)>>[1] = "tried"
        BY DoName
      <3>2. Adds(c, {"connect", "visit", "tried"})
        BY <2>1, <3>1, Adds3
      <3>3. Pushed(c, {"connect", "visit", "tried"})
        BY <2>1, <1>8, <1>2, <3>2 DEF Pushed, Tries, Pushes
      <3> QED
        BY <3>3
    <2>2. CASE Left(c)' = {Do("visit"), <<"tried", Arg(c)>>} \cup Rest(c)
      <3>1. Do("visit")[1] = "visit" /\ <<"tried", Arg(c)>>[1] = "tried"
        BY DoName
      <3>2. Adds(c, {"visit", "tried"})
        BY <2>2, <3>1, Adds2
      <3>3. Pushed(c, {"visit", "tried"})
        BY <2>2, <1>8, <1>2, <3>2 DEF Pushed, Tries, Pushes
      <3> QED
        BY <3>3
    <2> QED
      BY <1>8, <2>1, <2>2 DEF Tries
  <1> QED
    BY <1>1, <1>3, <1>4, <1>5, <1>6, <1>7, <1>8 DEF Moved

LEMMA FallenOps ==
    ASSUME TypeOK, Form, NEW c \in Calls, Fallen(c)
    PROVE  /\ Same /\ \A a \in Left(c)' : a[1] \notin {"kill", "end"}
           /\ \/ /\ "tried" \in Ops(c) /\ stranded' = stranded
                 /\ Ops(c)' = {"pause", "soft"} \cup {n \in Ops(c) : Rank(n) > Rank("tried")}
                 /\ \A f : <<"spawn", f>> \notin Left(c)'
              \/ /\ "tried" \in Ops(c) /\ stranded' = stranded
                 /\ Ops(c)' = {"terminate", "spawn", "connect", "open", "ready"}
                              \cup {n \in Ops(c) : Rank(n) > Rank("tried")}
                 /\ \A f : <<"spawn", f>> \in Left(c)' <=> f \in Fields
              \/ /\ "booted" \in Ops(c) /\ "tried" \notin Ops(c) /\ stranded' = stranded
                 /\ Ops(c)' = {"broken"} /\ \A f : <<"spawn", f>> \notin Left(c)'
              \/ /\ "finished" \in Ops(c) /\ stranded' = stranded
                 /\ Ops(c)' = {"failed", "recover", "requeue"} /\ \A f : <<"spawn", f>> \notin Left(c)'
              \/ /\ Ops(c)' = {} /\ (\A f : <<"spawn", f>> \notin Left(c)') /\ todo'[c] = <<>>
                 /\ stranded' = stranded \/ /\ stranded' = stranded \cup {c} /\ IsJob(c)
                                            /\ "tried" \notin Ops(c)
                                            /\ "finished" \in Ops(c) => Op(c) = "started"
  <1> DEFINE G == {n \in Ops(c) : Rank(n) > Rank("tried")}
  <1>1. Same
    BY DEF Fallen
  <1>2. Names(Later(c)) = G
    BY DEF Names, Later, Ops
  <1>3. \A a \in Later(c) : Rank(a[1]) > 16
    BY RankTable DEF Later
  <1>4. \A a \in Later(c) : a[1] \notin {"kill", "end", "spawn"}
    <2>1. Rank("kill") = 5 /\ Rank("end") = 4 /\ Rank("spawn") = 10
      BY RankTable
    <2> QED
      BY <1>3, <2>1
  <1>5. \A f : <<"spawn", f>> \notin Later(c)
    BY <1>4, NoSpawn
  <1>6. CASE "tried" \in Ops(c) /\ stranded' = stranded
             /\ \E n \in Nat : Left(c)' = {Do("pause"), <<"soft", n>>} \cup Later(c)
    <2>1. PICK n \in Nat : Left(c)' = {Do("pause"), <<"soft", n>>} \cup Later(c)
      BY <1>6
    <2>2. Do("pause")[1] = "pause" /\ <<"soft", n>>[1] = "soft"
      BY DoName
    <2>3. Ops(c)' = {"pause", "soft"} \cup G
      <3>1. Ops(c)' = {"pause", "soft"} \cup Names(Later(c))
        BY <2>1, <2>2 DEF Ops, Names
      <3> QED
        BY <3>1, <1>2
    <2>4. \A a \in Left(c)' : a[1] \notin {"kill", "end", "spawn"}
      BY <2>1, <2>2, <1>4
    <2> QED
      BY <2>3, <2>4, <1>1, <1>6, NoSpawn
  <1>7. CASE "tried" \in Ops(c) /\ stranded' = stranded /\ Left(c)' = Range(HardRecover) \cup Later(c)
    <2> DEFINE Y == {Do("terminate"), Do("connect"), Do("open"), Do("ready")}
    <2>1. Names(Y) = {"terminate", "connect", "open", "ready"}
      BY DoName DEF Names
    <2>2. \A a \in Y : a[1] \notin {"kill", "end", "spawn"}
      BY DoName
    <2>3. Left(c)' = Spawns \cup Y \cup Later(c)
      BY <1>7, HardRecoverFacts
    <2> HIDE DEF Y
    <2>4. Ops(c)' = {"spawn"} \cup Names(Y) \cup Names(Later(c))
      <3>1. Names(Left(c)') = Names(Spawns \cup Y) \cup Names(Later(c))
        BY <2>3, NamesOf
      <3>2. Names(Spawns \cup Y) = Names(Spawns) \cup Names(Y)
        BY NamesOf
      <3>3. Ops(c)' = Names(Left(c)')
        BY DEF Ops
      <3> QED
        BY <3>1, <3>2, <3>3, NamesOfSpawns
    <2>5. Ops(c)' = {"terminate", "spawn", "connect", "open", "ready"} \cup G
      BY <2>1, <2>4, <1>2
    <2>6. \A f : <<"spawn", f>> \in Left(c)' <=> f \in Fields
      BY <2>2, <2>3, <1>5, NoSpawn, NamesOfSpawns
    <2>7. \A a \in Left(c)' : a[1] \notin {"kill", "end"}
      BY <2>2, <2>3, <1>4 DEF Spawns
    <2> QED
      BY <2>5, <2>6, <2>7, <1>1, <1>7
  <1>8. CASE /\ "tried" \notin Ops(c) /\ "booted" \in Ops(c)
             /\ stranded' = stranded /\ Left(c)' = {Do("broken")}
    <2>1. \A a \in Left(c)' : a[1] = "broken"
      BY <1>8, DoName
    <2>2. Ops(c)' = {"broken"}
      BY <1>8, DoName DEF Ops, Names
    <2> QED
      BY <2>1, <2>2, <1>1, <1>8, NoSpawn
  <1>9. CASE /\ "finished" \in Ops(c) /\ stranded' = stranded
             /\ Left(c)' = {Do("failed"), Do("recover"), Do("requeue")}
    <2>1. \A a \in Left(c)' : a[1] \in {"failed", "recover", "requeue"}
      BY <1>9, DoName
    <2>2. Ops(c)' = {"failed", "recover", "requeue"}
      BY <1>9, DoName DEF Ops, Names
    <2> QED
      BY <2>1, <2>2, <1>1, <1>9, NoSpawn
  <1>10. CASE /\ "tried" \notin Ops(c) /\ ("finished" \in Ops(c) => Op(c) = "started")
              /\ stranded' = (IF IsJob(c) THEN stranded \cup {c} ELSE stranded)
              /\ todo'[c] = <<>> /\ Left(c)' = {}
    <2>1. Ops(c)' = {}
      BY <1>10, NamesOf DEF Ops
    <2> QED
      BY <2>1, <1>1, <1>10
  <1>11. "generate" \in Ops(c) => "finished" \in Ops(c)
    BY DEF Form, Shape
  <1> QED
    BY <1>6, <1>7, <1>8, <1>9, <1>10, <1>11 DEF Fallen, Raised

LEMMA FormOf ==
    ASSUME TypeOK, NEW c \in Calls, Form
    PROVE  Shape(Ops(c), ~AllSpawned(c))
  BY DEF Form

LEMMA FormMoved ==
    ASSUME TypeOK, Form, NEW c \in Calls, Well(c), Moved(c)
    PROVE  Form'
  <1>1. ASSUME NEW d \in Calls, d # c
        PROVE  (Ordered(todo[d]) /\ Shape(Ops(d), ~AllSpawned(d)))'
    BY <1>1 DEF Form, Well, Stays, Ops, AllSpawned, Left
  <1> DEFINE s == ~AllSpawned(c)
             R == Names(Rest(c))
  <1>2. Live(c)
    BY DEF Moved
  <1>3. Shape(Ops(c), s) /\ s \in BOOLEAN /\ s' \in BOOLEAN
    BY DEF Form, AllSpawned
  <1>4. Ops(c) = {Op(c)} \cup R /\ Follow(Op(c), R)
    BY <1>2, Unfold
  <1>5. Shape(Ops(c)', s')
    <2>1. ASSUME NEW N, Pushed(c, N) PROVE Shape(Ops(c)', s')
      <3>1. /\ Ops(c)' = N \cup R
            /\ s' <=> "spawn" \in N \/ <<"spawn", "chrome">> \in Rest(c)
        BY <2>1, FieldTypes DEF Pushed, Adds, AllSpawned
      <3>2. s => Op(c) = "spawn" \/ <<"spawn", "chrome">> \in Rest(c)
        <4>1. Left(c) = {Head(todo[c])} \cup Rest(c)
          BY <1>2, Unfold
        <4> QED
          BY <4>1 DEF AllSpawned, Op
      <3> HIDE DEF s, R
      <3>3. CASE N = {}
        <4>1. s => s' \/ Op(c) = "spawn"
          BY <3>1, <3>2
        <4>2. Shape(R, s')
          BY <4>1, <1>3, <1>4, ShapePassed
        <4>3. Ops(c)' = R
          BY <3>1, <3>3
        <4> QED
          BY <4>2, <4>3
      <3>4. CASE Pushes(Op(c), N)
        <4>1. Op(c) # "spawn"
          BY <3>4 DEF Pushes
        <4>2. (s => s') /\ ("spawn" \in N => s')
          BY <4>1, <3>1, <3>2
        <4>3. Shape(N \cup R, s')
          BY <4>2, <3>4, <1>3, <1>4, ShapeGoes
        <4> QED
          BY <4>3, <3>1
      <3> QED
        BY <2>1, <3>3, <3>4 DEF Pushed
    <2>2. CASE Fallen(c)
      <3> DEFINE G == {n \in Ops(c) : Rank(n) > Rank("tried")}
      <3>1. \/ "tried" \in Ops(c) /\ Ops(c)' = {"pause", "soft"} \cup G
            \/ /\ "tried" \in Ops(c) /\ Ops(c)' = {"terminate", "spawn", "connect", "open", "ready"} \cup G
               /\ s'
            \/ Ops(c)' \in {{"broken"}, {"failed", "recover", "requeue"}, {}}
        BY <2>2, FallenOps, FieldTypes DEF AllSpawned
      <3>2. s' = s \/ s' = ~s
        BY <1>3
      <3> HIDE DEF s
      <3>3. Shape({"pause", "soft"} \cup G, s') \/ "tried" \notin Ops(c)
        BY <1>3, ShapeRaised
      <3>4. Shape({"terminate", "spawn", "connect", "open", "ready"} \cup G, s')
            \/ "tried" \notin Ops(c) \/ ~s'
        BY <1>3, ShapeRaised
      <3>5. \A N : N \in {{"broken"}, {"failed", "recover", "requeue"}, {}} => Shape(N, s')
        BY <1>3, ShapeRaised
      <3> QED
        BY <3>1, <3>3, <3>4, <3>5
    <2> QED
      BY <2>1, <2>2, MovedOps
  <1>6. Ordered(todo'[c])
    BY DEF Well
  <1> QED
    BY <1>1, <1>5, <1>6 DEF Form

-----------------------------------------------------------------------------
(* Types. *)

(* The types of what a step may change besides todo and stranded. *)
DataType ==
    /\ current \in Objects \cup {None} /\ file \in Objects \cup {None}
    /\ status \in [Objects -> Statuses]
    /\ pid \in [Objects -> Pids \cup {None}]
    /\ jobs \in [Objects -> Nat]
    /\ context \in [Objects -> Pids \cup {None}]
    /\ field \in [Objects -> [Fields -> Pids \cup {None}]]
    /\ proc \in [Pids -> [runs : {"none", "desktop", "chrome"}, of : Objects \cup {None}]]
    /\ serving \in BOOLEAN
    /\ obj \in [Calls -> Objects \cup {None}]
    /\ late \subseteq Objects /\ excused \subseteq Calls

LEMMA DataStep ==
    ASSUME TypeOK, Form, NEW c \in Calls, Step(c) \/ AwaitRaises(c)
    PROVE  DataType'
  <1> USE DEF accountVars, runtimeVars
  <1>1. DataType
    BY DEF TypeOK, DataType
  <1>2. /\ "READY" \in Statuses /\ "BUSY" \in Statuses /\ "STOPPED" \in Statuses
        /\ "BROKEN_SESSION" \in Statuses
    BY DEF Statuses
  <1>3. CASE \/ Missing(c) \/ AwaitRaises(c) \/ InstallExtension(c) \/ Terminate(c) \/ EndAll(c)
             \/ Kill(c) \/ UsePage(c) \/ SoftRecover(c) \/ Execute(c) \/ JobTimesOut(c) \/ Pass(c)
    <2>1. UNCHANGED <<accountVars, runtimeVars, obj, late>> /\ excused' \subseteq excused \cup {c}
      BY <1>3 DEF Missing, AwaitRaises, InstallExtension, Terminate, EndAll, Kill, UsePage,
                  SoftRecover, Execute, JobTimesOut, Pass
    <2> QED
      BY <1>1, <2>1 DEF DataType
  <1>4. CASE StartAccount(c) \/ StopAccount(c) \/ EnsureRunning(c)
    <2>1. /\ UNCHANGED <<accountVars, runtimeVars, excused, late>>
          /\ obj' = [obj EXCEPT ![c] = current]
      BY <1>4 DEF StartAccount, StopAccount, EnsureRunning, Require
    <2> QED
      BY <1>1, <2>1 DEF DataType
  <1>5. CASE Stopped(c)
    BY <1>1, <1>2, <1>5 DEF DataType, Stopped, SetStatus, Save
  <1>6. CASE Finishes(c, "ready", "READY") \/ Finishes(c, "broken", "BROKEN_SESSION")
    BY <1>1, <1>2, <1>6 DEF DataType, Finishes, SetStatus, Save
  <1>7. CASE RecoverAccount(c)
    <2>1. /\ status' = [status EXCEPT ![current] = "BROKEN_SESSION"]
          /\ file' = file \/ file' = current
          /\ obj' = [obj EXCEPT ![c] = current]
          /\ UNCHANGED <<current, pid, jobs, runtimeVars, excused, late>>
      BY <1>7 DEF RecoverAccount, SetStatus, Save, Require
    <2> QED
      BY <1>1, <1>2, <2>1 DEF DataType
  <1>8. CASE Remove(c)
    BY <1>1, <1>8 DEF DataType, Remove
  <1>9. CASE UpdateProxy(c) \/ UpdateSettings(c)
    <2>1. /\ file' = current /\ obj' = [obj EXCEPT ![c] = current]
          /\ UNCHANGED <<current, status, pid, jobs, runtimeVars, excused, late>>
      BY <1>9 DEF UpdateProxy, UpdateSettings, Save, Require
    <2> QED
      BY <1>1, <2>1 DEF DataType
  <1>10. CASE MarkJobStarted(c)
    BY <1>1, <1>2, <1>10 DEF DataType, MarkJobStarted, SetStatus, Save, Require
  <1>11. CASE MarkJobFinished(c)
    <2>1. /\ jobs' = [jobs EXCEPT ![current] = Released(jobs[current])]
          /\ status' = [status EXCEPT ![current] = IF jobs'[current] = 0 THEN "READY" ELSE "BUSY"]
          /\ file' = current /\ obj' = [obj EXCEPT ![c] = current] /\ current # None
          /\ UNCHANGED <<current, pid, runtimeVars, excused, late>>
      BY <1>11 DEF MarkJobFinished, SetStatus, Save, Require
    <2>2. jobs[current] \in Nat /\ Released(jobs[current]) \in Nat
      <3>1. current \in Objects /\ jobs \in [Objects -> Nat]
        BY <1>1, <2>1 DEF DataType
      <3>2. jobs[current] \in Nat
        BY <3>1
      <3> QED
        BY <3>2 DEF Released
    <2> QED
      BY <1>1, <1>2, <2>1, <2>2 DEF DataType
  <1>12. CASE CloseContext(c)
    BY <1>1, <1>12 DEF DataType, CloseContext, Handlers
  <1>13. CASE EndProcess(c)
    BY <1>1, <1>13 DEF DataType, EndProcess, Handlers, Nothing
  <1>14. CASE ClearFields(c)
    BY <1>1, <1>14 DEF DataType, ClearFields
  <1>15. CASE StopBridge(c) \/ StartBridge(c)
    BY <1>1, <1>15 DEF DataType, StopBridge, StartBridge, Handlers
  <1>16. CASE Spawn(c)
    <2> DEFINE new == CHOOSE p \in Pids : ~Known(p)
    <2>1. new \in Pids
      BY <1>16 DEF Spawn
    <2>2. Arg(c) \in Fields
      BY <1>16, OpKinds DEF Spawn, Runs
    <2>3. /\ proc' = [proc EXCEPT ![new] =
                 [runs |-> IF Arg(c) = "chrome" THEN "chrome" ELSE "desktop", of |-> obj[c]]]
          /\ field' = [field EXCEPT ![obj[c]][Arg(c)] = new]
          /\ pid' = IF Arg(c) = "chrome" THEN [pid EXCEPT ![obj[c]] = new] ELSE pid
          /\ UNCHANGED <<current, file, status, jobs, context, serving, obj, excused, late>>
      BY <1>16 DEF Spawn
    <2> HIDE DEF new
    <2>4. proc' \in [Pids -> [runs : {"none", "desktop", "chrome"}, of : Objects \cup {None}]]
      BY <1>1, <2>1, <2>3 DEF DataType
    <2>5. field' \in [Objects -> [Fields -> Pids \cup {None}]]
      BY <1>1, <2>1, <2>2, <2>3 DEF DataType
    <2>6. pid' \in [Objects -> Pids \cup {None}]
      BY <1>1, <2>1, <2>3 DEF DataType
    <2> QED
      BY <1>1, <2>3, <2>4, <2>5, <2>6 DEF DataType
  <1>17. CASE Connect(c)
    BY <1>1, <1>17 DEF DataType, Connect
  <1> QED
    BY <1>3, <1>4, <1>5, <1>6, <1>7, <1>8, <1>9, <1>10, <1>11, <1>12, <1>13, <1>14, <1>15, <1>16,
       <1>17 DEF Step

LEMMA StrandedType ==
    ASSUME TypeOK, Form, NEW c \in Calls, Moved(c)
    PROVE  stranded' = stranded \/ stranded' = stranded \cup {c}
  BY MovedOps, FallenOps DEF Pushed

-----------------------------------------------------------------------------
(* Calls begin. *)

(* The names of the steps that calls begin with. *)
Programs == {{"stop", "remove"}, {"stop", "start"}, {"assigned", "ensure", "started", "work", "finished"},
             {"start"}, {"stop"}, {"recover"}, {"proxy"}, {"settings"}, {"install"}}

LEMMA RunJobFacts ==
    /\ RunJob \in Seq(Steps) /\ Ordered(RunJob)
    /\ Names(Range(RunJob)) = {"assigned", "ensure", "started", "work", "finished"}
    /\ \A a \in Range(RunJob) : a[1] \notin {"kill", "end", "spawn"}
  <1>1. /\ Do("assigned") \in Steps /\ Do("ensure") \in Steps /\ Do("started") \in Steps
        /\ Do("work") \in Steps /\ Do("finished") \in Steps
    BY StepKinds DEF Plain, Awaits
  <1>2. RunJob \in Seq(Steps) /\ DOMAIN RunJob = 1 .. 5
    BY <1>1 DEF RunJob
  <1>3. /\ RunJob[1] = Do("assigned") /\ RunJob[2] = Do("ensure") /\ RunJob[3] = Do("started")
        /\ RunJob[4] = Do("work") /\ RunJob[5] = Do("finished")
    BY DEF RunJob
  <1>4. 1 .. 5 = {1, 2, 3, 4, 5}
    OBVIOUS
  <1>5. Range(RunJob) = {Do("assigned"), Do("ensure"), Do("started"), Do("work"), Do("finished")}
    BY <1>2, <1>3, <1>4 DEF Range
  <1>6. /\ Rank(RunJob[1][1]) = 23 /\ Rank(RunJob[2][1]) = 24 /\ Rank(RunJob[3][1]) = 25
        /\ Rank(RunJob[4][1]) = 26 /\ Rank(RunJob[5][1]) = 30
    BY <1>3, DoName, RankTable
  <1>7. \A i, j \in 1 .. 5 : i < j => Rank(RunJob[i][1]) < Rank(RunJob[j][1])
    BY <1>4, <1>6
  <1>8. Ordered(RunJob)
    BY <1>2, <1>7, Lower DEF Ordered
  <1>9. \A a \in Range(RunJob) : a[1] \in {"assigned", "ensure", "started", "work", "finished"}
    BY <1>5, DoName
  <1>10. Names(Range(RunJob)) = {"assigned", "ensure", "started", "work", "finished"}
    BY <1>5, DoName DEF Names
  <1> QED
    BY <1>2, <1>8, <1>9, <1>10

LEMMA ProgramFacts ==
    ASSUME NEW operation \in Operations \ {"create"}
    PROVE  /\ Program(operation) \in Seq(Steps) /\ Ordered(Program(operation))
           /\ Names(Range(Program(operation))) \in Programs
           /\ \A a \in Range(Program(operation)) : a[1] \notin {"kill", "end", "spawn"}
  <1>1. operation \in {"delete", "start", "stop", "restart", "recover", "proxy", "settings", "install", "job"}
    BY OperationsAssumption
  <1>2. CASE operation = "job"
    <2>1. Program(operation) = RunJob
      BY <1>2 DEF Program
    <2> QED
      BY <2>1, RunJobFacts DEF Programs
  <1>3. CASE operation \in {"delete", "restart"}
    <2> DEFINE last == IF operation = "delete" THEN "remove" ELSE "start"
               s == <<Do("stop"), Do(last)>>
    <2>1. last \in Plain /\ last \in {"remove", "start"} /\ "stop" \in Plain
      BY DEF Plain
    <2>2. Program(operation) = s
      BY <1>3 DEF Program
    <2> HIDE DEF last
    <2>3. /\ Do("stop") \in Steps /\ Do(last) \in Steps /\ Do("stop")[1] = "stop" /\ Do(last)[1] = last
      BY <2>1, StepKinds
    <2>4. Before(Do("stop"), Do(last))
      <3>1. Rank("stop") = 21 /\ Rank("remove") = 36 /\ Rank("start") = 22
        BY RankTable
      <3> QED
        BY <2>1, <2>3, <3>1, Lower
    <2>5. s \in Seq(Steps) /\ Ordered(s) /\ Range(s) = {Do("stop"), Do(last)}
      BY <2>3, <2>4, Short
    <2> HIDE DEF s
    <2>6. Names(Range(s)) = {"stop", last} /\ \A a \in Range(s) : a[1] \in {"stop", last}
      BY <2>3, <2>5 DEF Names
    <2> QED
      BY <2>1, <2>2, <2>5, <2>6 DEF Programs
  <1>4. CASE operation \in {"start", "stop", "recover", "proxy", "settings", "install"}
    <2> DEFINE s == <<Do(operation)>>
    <2>1. Program(operation) = s
      BY <1>4 DEF Program
    <2>2. Do(operation) \in Steps /\ Do(operation)[1] = operation
      BY <1>4, StepKinds DEF Plain
    <2>3. s \in Seq(Steps) /\ Ordered(s) /\ Range(s) = {Do(operation)}
      BY <2>2, Short
    <2> HIDE DEF s
    <2>4. Names(Range(s)) = {operation} /\ \A a \in Range(s) : a[1] = operation
      BY <2>2, <2>3 DEF Names
    <2> QED
      BY <1>4, <2>1, <2>3, <2>4 DEF Programs
  <1> QED
    BY <1>1, <1>2, <1>3, <1>4

LEMMA ShapePrograms == \A N \in Programs : Shape(N, FALSE)
  <1>1. /\ Rank("start") = 22 /\ Rank("stop") = 21
    BY RankTable
  <1> SUFFICES ASSUME NEW N \in Programs PROVE Shape(N, FALSE)
    OBVIOUS
  <1>2. /\ Without(N, Clearing \cup {"unserve", "serve", "stopped", "open", "soft", "visit", "generate"})
        /\ Without(N, {"booted", "requeue"})
        /\ "work" \in N => "finished" \in N /\ Without(N, {"failed", "recover", "generate"})
        /\ "remove" \in N => N = {"stop", "remove"}
    BY DEF Programs, Without, Clearing
  <1> QED
    BY <1>2 DEF Shape, Without, Clearing

(* A call begins, or the account is created. *)
Begins(c) ==
    /\ ~Live(c) /\ Well(c) /\ stranded' = stranded \ {c} /\ excused' = excused \ {c}
    /\ \A a \in Left(c)' : a[1] \notin {"kill", "end", "spawn"}
    /\ Ops(c)' \in Programs
    /\ \A d \in Calls : Suspended(d) /\ Without(Ops(d), {"booted", "broken"})
    /\ current \notin overlapped

LEMMA BeginGoes ==
    ASSUME TypeOK, Form, NEW c \in Calls, Begin(c) \/ CreateAccount(c)
    PROVE  Begins(c)
  <1>1. /\ ~Live(c) /\ stranded' = stranded \ {c} /\ excused' = excused \ {c}
        /\ \A d \in Calls : Suspended(d) /\ Without(Ops(d), {"booted", "broken"})
        /\ current \notin overlapped
    BY HasOps DEF Begin, CreateAccount, MayBegin, Without
  <1>2. CASE Begin(c)
    <2>1. PICK operation \in Operations \ {"create"} : todo' = [todo EXCEPT ![c] = Program(operation)]
      BY <1>2 DEF Begin
    <2>2. Well(c) /\ Left(c)' = Range(Program(operation))
      BY <2>1, ProgramFacts, Replaced
    <2>3. Ops(c)' = Names(Range(Program(operation)))
      BY <2>2 DEF Ops
    <2> QED
      BY <2>2, <2>3, <1>1, ProgramFacts DEF Begins
  <1>3. CASE CreateAccount(c)
    <2> DEFINE s == <<Do("start")>>
    <2>1. Do("start") \in Steps /\ Do("start")[1] = "start"
      BY StepKinds DEF Plain
    <2>2. s \in Seq(Steps) /\ Ordered(s) /\ Range(s) = {Do("start")}
      BY <2>1, Short
    <2>3. todo' = [todo EXCEPT ![c] = s]
      BY <1>3 DEF CreateAccount
    <2> HIDE DEF s
    <2>4. Well(c) /\ Left(c)' = {Do("start")}
      BY <2>2, <2>3, Replaced
    <2>5. Ops(c)' = {"start"} /\ \A a \in Left(c)' : a[1] = "start"
      BY <2>1, <2>4 DEF Ops, Names
    <2> QED
      BY <2>4, <2>5, <1>1 DEF Begins, Programs
  <1> QED
    BY <1>2, <1>3

LEMMA FormBegins ==
    ASSUME TypeOK, Form, NEW c \in Calls, Begins(c)
    PROVE  Form'
  <1>1. ASSUME NEW d \in Calls, d # c
        PROVE  (Ordered(todo[d]) /\ Shape(Ops(d), ~AllSpawned(d)))'
    BY <1>1 DEF Form, Begins, Well, Stays, Ops, AllSpawned, Left
  <1>2. Ordered(todo'[c])
    BY DEF Begins, Well
  <1>3. (~AllSpawned(c))' = FALSE
    BY DEF AllSpawned, Begins
  <1>4. Shape(Ops(c)', (~AllSpawned(c))')
    BY <1>3, ShapePrograms DEF Begins
  <1> QED
    BY <1>1, <1>2, <1>4 DEF Form

(* The worker starts anew. *)
LEMMA RebootGoes ==
    ASSUME TypeOK, Reboot
    PROVE  /\ todo' \in [Calls -> Seq(Steps)]
           /\ \A d \in Calls : Ordered(todo'[d])
           /\ \A d \in Calls : \/ todo'[d] = <<>> /\ Left(d)' = {} /\ Ops(d)' = {}
                               \/ /\ Ops(d)' = {"start", "booted"} /\ Op(d)' = "start" /\ file # None
                                  /\ \A a \in Left(d)' : a[1] \notin {"kill", "end", "spawn"}
           /\ \A d, e \in Calls : Ops(d)' # {} /\ Ops(e)' # {} => d = e
  <1> DEFINE s == <<Do("start"), Do("booted")>>
  <1>1. Do("start") \in Steps /\ Do("booted") \in Steps /\ Do("start")[1] = "start" /\ Do("booted")[1] = "booted"
    BY StepKinds DEF Plain
  <1>2. Before(Do("start"), Do("booted"))
    <2>1. Rank("start") = 22 /\ Rank("booted") = 32
      BY RankTable
    <2> QED
      BY <1>1, <2>1, Lower
  <1>3. s \in Seq(Steps) /\ Ordered(s) /\ Range(s) = {Do("start"), Do("booted")} /\ Head(s) = Do("start")
    BY <1>1, <1>2, Short
  <1>4. PICK c \in Calls, warm \in {FALSE, file # None} :
            todo' = [d \in Calls |-> IF warm /\ d = c THEN s ELSE <<>>]
    BY DEF Reboot
  <1> HIDE DEF s
  <1>5. <<>> \in Seq(Steps) /\ Ordered(<<>>) /\ Range(<<>>) = {}
    BY Short
  <1>6. todo' \in [Calls -> Seq(Steps)] /\ \A d \in Calls : Ordered(todo'[d])
    BY <1>3, <1>4, <1>5
  <1>7. ASSUME NEW d \in Calls, ~(warm /\ d = c)
        PROVE  todo'[d] = <<>> /\ Left(d)' = {} /\ Ops(d)' = {}
    <2>1. todo'[d] = <<>> /\ Left(d)' = {}
      BY <1>4, <1>5, <1>7 DEF Left
    <2> QED
      BY <2>1, NamesOf DEF Ops
  <1>8. ASSUME warm
        PROVE  /\ Ops(c)' = {"start", "booted"} /\ Op(c)' = "start" /\ file # None
               /\ \A a \in Left(c)' : a[1] \notin {"kill", "end", "spawn"}
    <2>1. todo'[c] = s /\ Left(c)' = {Do("start"), Do("booted")}
      BY <1>3, <1>4, <1>8 DEF Left
    <2>2. Ops(c)' = {"start", "booted"}
      BY <2>1, <1>1 DEF Ops, Names
    <2>3. Op(c)' = "start"
      BY <2>1, <1>1, <1>3 DEF Op
    <2> QED
      BY <2>1, <2>2, <2>3, <1>1, <1>8
  <1> QED
    BY <1>6, <1>7, <1>8

LEMMA FormReboot ==
    ASSUME TypeOK, Reboot
    PROVE  Form'
  <1>1. Shape({}, FALSE) /\ Shape({"start", "booted"}, FALSE)
    BY DEF Shape, Without, Clearing
  <1>2. ASSUME NEW d \in Calls PROVE Ordered(todo'[d]) /\ Shape(Ops(d)', (~AllSpawned(d))')
    <2>1. (~AllSpawned(d))' = FALSE
      BY RebootGoes DEF AllSpawned
    <2> QED
      BY <1>1, <2>1, RebootGoes
  <1> QED
    BY <1>2 DEF Form

-----------------------------------------------------------------------------
(* A step of a call leaves the others where they are. *)

LEMMA Elsewhere ==
    ASSUME TypeOK, NEW c \in Calls, Well(c), Same \/ Found(c)
    PROVE  \A d \in Calls \ {c} : /\ todo'[d] = todo[d] /\ Left(d)' = Left(d) /\ Ops(d)' = Ops(d)
                                  /\ Op(d)' = Op(d) /\ obj'[d] = obj[d]
  <1> SUFFICES ASSUME NEW d \in Calls \ {c}
               PROVE  /\ todo'[d] = todo[d] /\ Left(d)' = Left(d) /\ Ops(d)' = Ops(d)
                      /\ Op(d)' = Op(d) /\ obj'[d] = obj[d]
    OBVIOUS
  <1>1. todo'[d] = todo[d]
    BY DEF Well, Stays
  <1>2. obj'[d] = obj[d]
    BY DEF Same, Found, TypeOK
  <1> QED
    BY <1>1, <1>2 DEF Left, Ops, Op

LEMMA HeadOps ==
    ASSUME NEW c \in Calls, todo' \in [Calls -> Seq(Steps)], Live(c)'
    PROVE  Op(c)' \in Ops(c)' /\ Ops(c)' # {}
  <1>1. todo'[c] \in Seq(Steps) /\ todo'[c] # <<>>
    BY DEF Live
  <1>2. Len(todo'[c]) \in Nat \ {0} /\ DOMAIN todo'[c] = 1 .. Len(todo'[c])
    BY <1>1, LenProperties, EmptySeq
  <1>3. Head(todo'[c]) = todo'[c][1] /\ 1 \in DOMAIN todo'[c]
    BY <1>1, <1>2
  <1>4. Head(todo'[c]) \in Left(c)'
    BY <1>3 DEF Left, Range
  <1>5. Op(c)' = Head(todo'[c])[1]
    BY DEF Op
  <1>6. Head(todo'[c])[1] \in Ops(c)'
    BY <1>4 DEF Ops, Names
  <1> QED
    BY <1>5, <1>6

LEMMA Turn ==
    ASSUME OneRuns, NEW c \in Calls, Step(c) \/ AwaitRaises(c)
    PROVE  \A d \in Calls \ {c} : Suspended(d)
  <1>1. JobTimesOut(c) \/ \E name : Runs(c, name)
    BY DEF Step, AwaitRaises, Missing, StartAccount, StopAccount, Stopped, Finishes, RecoverAccount,
           Remove, UpdateProxy, UpdateSettings, InstallExtension, EnsureRunning, MarkJobStarted,
           MarkJobFinished, Terminate, CloseContext, EndAll, Kill, EndProcess, ClearFields,
           StopBridge, StartBridge, Spawn, Connect, UsePage, SoftRecover, Execute, Pass, Require
  <1>2. CASE JobTimesOut(c)
    BY <1>2 DEF JobTimesOut
  <1>3. CASE \E name : Runs(c, name)
    <2>1. Live(c) /\ (Op(c) \in Awaits => \A d \in Calls : Suspended(d))
      BY <1>3 DEF Runs
    <2>2. Op(c) \notin Awaits => ~Suspended(c)
      BY <2>1 DEF Suspended
    <2> QED
      BY <2>1, <2>2 DEF OneRuns
  <1> QED
    BY <1>1, <1>2, <1>3

LEMMA SameOrFound ==
    ASSUME TypeOK, Form, NEW c \in Calls, Moved(c)
    PROVE  Same \/ Found(c)
  BY MovedOps, FallenOps DEF Pushed

LEMMA OneRunsMoved ==
    ASSUME NEW c \in Calls, \A d \in Calls \ {c} : Suspended(d) /\ todo'[d] = todo[d]
    PROVE  OneRuns'
  <1>1. \A d \in Calls \ {c} : Suspended(d)'
    BY DEF Suspended, Live, Op
  <1> QED
    BY <1>1 DEF OneRuns

-----------------------------------------------------------------------------
(* The object that a call works on is the registered one. *)

LEMMA WorksMoved ==
    ASSUME TypeOK, Form, NEW c \in Calls, Well(c), Moved(c), Works(c)'
    PROVE  (Same /\ Works(c)) \/ Found(c)
  <1> USE DEF Works
  <1>1. Live(c) /\ Op(c)' \in Ops(c)'
    BY HeadOps DEF Well, Moved
  <1>2. /\ Ops(c) = {Op(c)} \cup Names(Rest(c))
        /\ \A n \in Names(Rest(c)) : Rank(Op(c)) <= Rank(n)
    <2>1. Ops(c) = {Op(c)} \cup Names(Rest(c)) /\ Follow(Op(c), Names(Rest(c)))
      BY <1>1, Unfold
    <2> QED
      BY <2>1, RankType DEF Follow
  <1>3. Rank(Op(c)') < 20 \/ "booted" \in Ops(c)'
    BY RankTable
  <1>4. CASE Fallen(c)
    <2>1. \/ "tried" \in Ops(c) \/ "booted" \in Ops(c)
          \/ Ops(c)' = {"failed", "recover", "requeue"} \/ Ops(c)' = {}
      BY <1>4, FallenOps
    <2>2. ~(Ops(c)' = {"failed", "recover", "requeue"})
      BY <1>1, <1>3, RankTable
    <2>3. "tried" \in Ops(c) => Rank(Op(c)) < 20
      BY <1>2, RankTable, RankType
    <2> QED
      BY <1>1, <1>4, <2>1, <2>2, <2>3, RankTable, FallenOps
  <1>5. ASSUME NEW N, Pushed(c, N), ~Found(c) PROVE Works(c)
    <2>1. Ops(c)' = N \cup Names(Rest(c)) /\ (N = {} \/ Pushes(Op(c), N))
          /\ ~(Op(c) \in {"start", "stop", "recover"} /\ N # {})
      BY <1>5 DEF Pushed, Adds
    <2>2. CASE "booted" \in Ops(c)'
      <3>1. "booted" \notin N
        BY <2>1 DEF Pushes
      <3> QED
        BY <1>1, <1>2, <2>1, <2>2, <3>1
    <2>3. CASE Op(c)' \in Names(Rest(c)) /\ Rank(Op(c)') < 20
      BY <1>1, <1>2, <2>3, RankTable, RankType
    <2>4. CASE Op(c)' \in N /\ Rank(Op(c)') < 20
      <3>1. Op(c) \in {"proxy", "settings", "ensure", "install", "work", "terminate", "list", "kill",
                       "unserve", "soft"}
        BY <2>1, <2>4 DEF Pushes
      <3>2. Op(c) \in {"proxy", "settings", "ensure", "install", "work"} =>
                N \subseteq {"stop", "start", "others", "recover", "generate"}
        BY <2>1, <2>4 DEF Pushes
      <3>3. Op(c) \in {"terminate", "list", "kill", "unserve", "soft"}
        BY <2>4, <3>1, <3>2, RankTable
      <3>4. Rank(Op(c)) < 20
        BY <3>3, RankTable
      <3> QED
        BY <1>1, <3>4, RankTable
    <2> QED
      BY <1>1, <1>3, <2>1, <2>2, <2>3, <2>4
  <1> QED
    BY <1>4, <1>5, MovedOps DEF Pushed

LEMMA Registered ==
    ASSUME NEW c \in Calls, Step(c) \/ AwaitRaises(c)
    PROVE  Remove(c) \/ (current' = current /\ late' = late)
  BY DEF Step, AwaitRaises, Missing, StartAccount, StopAccount, Stopped, Finishes, RecoverAccount,
         UpdateProxy, UpdateSettings, InstallExtension, EnsureRunning, MarkJobStarted,
         MarkJobFinished, Terminate, CloseContext, EndAll, Kill, EndProcess, ClearFields,
         StopBridge, StartBridge, Spawn, Connect, UsePage, SoftRecover, Execute, JobTimesOut, Pass,
         accountVars, runtimeVars

LEMMA BoundStep ==
    ASSUME TypeOK, Form, Bound, NEW c \in Calls, Step(c) \/ AwaitRaises(c)
    PROVE  Bound'
  <1>1. Well(c) /\ Moved(c)
    BY Moves
  <1>2. Same \/ Found(c)
    BY <1>1, SameOrFound
  <1>3. \A d \in Calls \ {c} : (Works(d)' <=> Works(d)) /\ obj'[d] = obj[d]
    BY <1>1, <1>2, Elsewhere DEF Works, Live
  <1>4. Works(c)' => (obj'[c] = obj[c] /\ Works(c)) \/ (obj'[c] = current /\ current \in Objects)
    BY <1>1, WorksMoved DEF Same, Found, TypeOK
  <1>5. CASE current' = current /\ late' = late
    BY <1>3, <1>4, <1>5 DEF Bound
  <1>6. CASE Remove(c)
    <2>1. ~Works(c)'
      <3>1. Live(c) /\ Op(c) = "remove" /\ Goes(c, <<>>)
        BY <1>6 DEF Remove, Runs
      <3>2. Left(c)' = Rest(c)
        BY <3>1, Passing
      <3>3. \A b \in Rest(c) : Rank(b[1]) > 36
        BY <3>1, Lowers, RankTable
      <3>4. Ops(c)' = {}
        BY <3>2, <3>3, RankType DEF Ops, Names
      <3>5. Live(c)' => Ops(c)' # {}
        BY <1>1, HeadOps DEF Well
      <3> QED
        BY <3>4, <3>5 DEF Works
    <2>2. ASSUME NEW d \in Calls \ {c}, Works(d) PROVE obj[d] \in Objects /\ obj[d] \in late'
      <3>1. obj[d] \in Objects /\ (obj[d] = current \/ obj[d] \in late)
        BY <2>2 DEF Bound
      <3>2. Live(d) /\ Op(d) \in Ops(d) /\ Op(d) \notin {"assigned", "work", "generate", "others"}
        <4>1. Live(d) /\ Op(d) \in Ops(d)
          BY <2>2, OpKinds DEF Works
        <4>2. CASE "booted" \in Ops(d)
          BY <4>1, <4>2 DEF Form, Shape, Without
        <4>3. CASE Rank(Op(d)) < 20
          BY <4>1, <4>3, RankTable
        <4> QED
          BY <2>2, <4>1, <4>2, <4>3, RankTable DEF Works
      <3>3. obj[d] = current => AtWork(d, current)
        BY <3>2 DEF AtWork
      <3>4. late' = IF current # None /\ (obj[c] # current \/ \E e \in Calls \ {c} : AtWork(e, current))
                    THEN late \cup {current} ELSE late
        BY <1>6 DEF Remove
      <3>5. current \in Objects => current # None
        BY NoneAssumption
      <3> QED
        BY <3>1, <3>3, <3>4, <3>5
    <2> QED
      BY <2>1, <2>2, <1>3 DEF Bound
  <1> QED
    BY <1>5, <1>6, Registered

(* A call of a low rank works on an object of its own. *)
LEMMA BoundAt ==
    ASSUME TypeOK, Form, Bound, NEW c \in Calls, Live(c), Rank(Op(c)) < 20
    PROVE  obj[c] \in Objects /\ (obj[c] = current \/ obj[c] \in late)
  BY RankTable DEF Bound, Works

LEMMA NoGhostsStep ==
    ASSUME TypeOK, Form, Bound, NoGhosts, NEW c \in Calls, Step(c) \/ AwaitRaises(c)
    PROVE  NoGhosts'
  <1>1. CASE Stopped(c) \/ Finishes(c, "ready", "READY") \/ Finishes(c, "broken", "BROKEN_SESSION")
    <2>1. /\ Live(c) /\ Op(c) \in {"stopped", "ready", "broken"}
          /\ file' = obj[c] /\ current' = current /\ late' = late
      BY <1>1 DEF Stopped, Finishes, Runs, Save
    <2>2. Rank(Op(c)) < 20
      BY <2>1, RankTable
    <2> QED
      BY <2>1, <2>2, BoundAt DEF NoGhosts
  <1>2. CASE Remove(c)
    BY <1>2 DEF Remove, NoGhosts
  <1>3. CASE \/ RecoverAccount(c) \/ UpdateProxy(c) \/ UpdateSettings(c) \/ MarkJobStarted(c)
             \/ MarkJobFinished(c)
    <2>1. (file' = current \/ file' = file) /\ current' = current /\ late' = late
      BY <1>3 DEF RecoverAccount, UpdateProxy, UpdateSettings, MarkJobStarted, MarkJobFinished, Save
    <2> QED
      BY <2>1 DEF NoGhosts
  <1>4. CASE UNCHANGED <<file, current, late>>
    BY <1>4 DEF NoGhosts
  <1> QED
    BY <1>1, <1>2, <1>3, <1>4
    DEF Step, AwaitRaises, Missing, StartAccount, StopAccount, InstallExtension, EnsureRunning,
        Terminate, CloseContext, EndAll, Kill, EndProcess, ClearFields, StopBridge, StartBridge,
        Spawn, Connect, UsePage, SoftRecover, Execute, JobTimesOut, Pass, accountVars, runtimeVars

-----------------------------------------------------------------------------
(* What the steps of a call do to what the calls share. *)

(* How every step but a reboot records the calls that meet. *)
Grown == overlapped' = overlapped \cup {o \in Objects : Overlap(o)'}

LEMMA Touches ==
    ASSUME NEW c \in Calls, Step(c) \/ AwaitRaises(c)
    PROVE  /\ EndProcess(c) \/ Spawn(c) \/ proc' = proc
           /\ ClearFields(c) \/ Spawn(c) \/ field' = field
           /\ CloseContext(c) \/ Connect(c) \/ context' = context
           /\ StopBridge(c) \/ StartBridge(c) \/ serving' = serving
           /\ Stopped(c) \/ Spawn(c) \/ pid' = pid
           /\ excused \subseteq excused' /\ late \subseteq late'
  BY DEF Step, AwaitRaises, Missing, StartAccount, StopAccount, Stopped, Finishes, RecoverAccount,
         Remove, UpdateProxy, UpdateSettings, InstallExtension, EnsureRunning, MarkJobStarted,
         MarkJobFinished, Terminate, CloseContext, EndAll, Kill, EndProcess, ClearFields,
         StopBridge, StartBridge, Spawn, Connect, UsePage, SoftRecover, Execute, JobTimesOut, Pass,
         accountVars, runtimeVars

LEMMA Fresh ==
    ASSUME TypeOK, NEW p \in Pids, ~Known(p)
    PROVE  /\ p # None /\ ~Alive(p)
           /\ \A o \in Objects : pid[o] # p /\ context[o] # p /\ \A f \in Fields : field[o][f] # p
           /\ \A c \in Calls : \A a \in Left(c) : a[1] \in {"kill", "end"} => a[2] # p
  <1>1. p # None
    BY NoneAssumption
  <1>2. ~Alive(p) /\ \A o \in Objects : pid[o] # p /\ context[o] # p /\ \A f \in Fields : field[o][f] # p
    BY DEF Known
  <1>3. ASSUME NEW c \in Calls, NEW a \in Left(c), a[1] \in {"kill", "end"}, a[2] = p PROVE FALSE
    <2>1. todo[c] \in Seq(Steps)
      BY DEF TypeOK
    <2>2. PICK i \in DOMAIN todo[c] : todo[c][i] = a
      BY <1>3 DEF Left, Range
    <2>3. a \in Steps
      BY <1>3, HasOps
    <2>4. a = <<a[1], a[2]>>
      BY <2>3, StepKinds
    <2>5. a \in {<<"kill", p>>, <<"end", p>>}
      BY <1>3, <2>4
    <2> QED
      BY <2>2, <2>5 DEF Known
  <1> QED
    BY <1>1, <1>2, <1>3

LEMMA SpawnSteps ==
    ASSUME TypeOK, Form, Bound, NEW c \in Calls, Spawn(c)
    PROVE  \E p \in Pids, f \in Fields :
              /\ ~Known(p) /\ Op(c) = "spawn" /\ Arg(c) = f /\ Same /\ obj[c] \in Objects
              /\ obj[c] = current \/ obj[c] \in late
              /\ <<"spawn", f>> \in Left(c) /\ <<"spawn", f>> \notin Left(c)'
              /\ Left(c) = {<<"spawn", f>>} \cup Rest(c) /\ Left(c)' = Rest(c)
              /\ proc' = [proc EXCEPT ![p] = [runs |-> IF f = "chrome" THEN "chrome" ELSE "desktop",
                                              of |-> obj[c]]]
              /\ field' = [field EXCEPT ![obj[c]][f] = p]
              /\ UNCHANGED <<current, context, serving, excused, late>>
              /\ \A d \in Calls : Suspended(d)
  <1> DEFINE new == CHOOSE p \in Pids : ~Known(p)
             f == Arg(c)
  <1>1. new \in Pids /\ ~Known(new)
    BY DEF Spawn
  <1>2. /\ Live(c) /\ Op(c) = "spawn" /\ Same /\ Goes(c, <<>>) /\ \A d \in Calls : Suspended(d)
        /\ proc' = [proc EXCEPT ![new] = [runs |-> IF f = "chrome" THEN "chrome" ELSE "desktop",
                                          of |-> obj[c]]]
        /\ field' = [field EXCEPT ![obj[c]][f] = new]
        /\ UNCHANGED <<current, context, serving, excused, late>>
    BY DEF Spawn, Runs, Same, Awaits
  <1> HIDE DEF new
  <1>3. f \in Fields /\ Head(todo[c]) = <<"spawn", f>>
    BY <1>2, OpKinds
  <1>4. /\ Left(c) = {<<"spawn", f>>} \cup Rest(c) /\ Left(c)' = Rest(c)
        /\ \A b \in Rest(c) : Before(<<"spawn", f>>, b)
    <2>1. Left(c)' = Rest(c)
      BY <1>2, Passing
    <2>2. Left(c) = {Head(todo[c])} \cup Rest(c) /\ \A b \in Rest(c) : Before(Head(todo[c]), b)
      BY <1>2, Unfold
    <2> QED
      BY <1>3, <2>1, <2>2
  <1>5. <<"spawn", f>> \notin Rest(c)
    <2>1. ~Before(<<"spawn", f>>, <<"spawn", f>>)
      BY RankTable DEF Before
    <2> QED
      BY <1>4, <2>1
  <1>6. obj[c] \in Objects /\ (obj[c] = current \/ obj[c] \in late)
    <2>1. Live(c) /\ Rank(Op(c)) < 20
      BY <1>2, RankTable
    <2> QED
      BY <2>1, BoundAt
  <1> QED
    BY <1>1, <1>2, <1>3, <1>4, <1>5, <1>6

LEMMA EndSteps ==
    ASSUME TypeOK, Form, Bound, NEW c \in Calls, EndProcess(c)
    PROVE  /\ Op(c) = "end" /\ Same /\ <<"end", Arg(c)>> \in Left(c) /\ Left(c)' = Rest(c)
           /\ Left(c) = {<<"end", Arg(c)>>} \cup Rest(c)
           /\ obj[c] \in Objects
           /\ proc' = [proc EXCEPT ![Arg(c)] = Nothing]
           /\ excused' = excused \cup {d \in Handlers(c) : obj[d] = obj[c] \/ context[obj[d]] = Arg(c)}
           /\ UNCHANGED <<current, context, serving, field, late>>
           /\ \A p \in Pids : proc'[p] = IF p = Arg(c) THEN Nothing ELSE proc[p]
  <1>1. /\ Live(c) /\ Op(c) = "end" /\ Same /\ Goes(c, <<>>)
        /\ proc' = [proc EXCEPT ![Arg(c)] = Nothing]
        /\ excused' = excused \cup {d \in Handlers(c) : obj[d] = obj[c] \/ context[obj[d]] = Arg(c)}
        /\ UNCHANGED <<current, context, serving, field, late>>
    BY DEF EndProcess, Runs, Same, accountVars
  <1>2. Head(todo[c]) = <<"end", Arg(c)>>
    BY <1>1, OpKinds
  <1>3. Left(c) = {<<"end", Arg(c)>>} \cup Rest(c) /\ Left(c)' = Rest(c)
    <2>1. Left(c)' = Rest(c)
      BY <1>1, Passing
    <2>2. Left(c) = {Head(todo[c])} \cup Rest(c)
      BY <1>1, Unfold
    <2> QED
      BY <1>2, <2>1, <2>2
  <1>4. obj[c] \in Objects
    <2>1. Live(c) /\ Rank(Op(c)) < 20
      BY <1>1, RankTable
    <2> QED
      BY <2>1, BoundAt
  <1>5. \A p \in Pids : proc'[p] = IF p = Arg(c) THEN Nothing ELSE proc[p]
    BY <1>1 DEF TypeOK
  <1> QED
    BY <1>1, <1>2, <1>3, <1>4, <1>5

LEMMA ClearSteps ==
    ASSUME TypeOK, Form, Bound, NEW c \in Calls, ClearFields(c)
    PROVE  /\ Op(c) = "clear" /\ Same /\ Left(c)' = Rest(c)
           /\ obj[c] \in Objects
           /\ \A b \in Rest(c) : Rank(b[1]) > 6
           /\ field' = [field EXCEPT ![obj[c]] = [f \in Fields |-> None]]
           /\ UNCHANGED <<current, context, serving, proc, excused, late>>
  <1>1. /\ Live(c) /\ Op(c) = "clear" /\ Same /\ Goes(c, <<>>)
        /\ field' = [field EXCEPT ![obj[c]] = [f \in Fields |-> None]]
        /\ UNCHANGED <<current, context, serving, proc, excused, late>>
    BY DEF ClearFields, Runs, Same, accountVars
  <1>2. Left(c)' = Rest(c) /\ \A b \in Rest(c) : Rank(b[1]) > 6
    <2>1. Left(c)' = Rest(c)
      BY <1>1, Passing
    <2>2. \A b \in Rest(c) : Rank(b[1]) > Rank(Op(c))
      BY <1>1, Lowers
    <2> QED
      BY <1>1, <2>1, <2>2, RankTable
  <1>3. obj[c] \in Objects
    <2>1. Live(c) /\ Rank(Op(c)) < 20
      BY <1>1, RankTable
    <2> QED
      BY <2>1, BoundAt
  <1> QED
    BY <1>1, <1>2, <1>3

-----------------------------------------------------------------------------
(* Whose process it is. *)

LEMMA KillsMoved ==
    ASSUME TypeOK, Form, NEW c \in Calls, Moved(c), NEW a \in Left(c)', a[1] \in {"kill", "end"}
    PROVE  /\ Same
           /\ \/ a \in Left(c)
              \/ Op(c) = "kill" /\ a = <<"end", Arg(c)>> /\ <<"kill", Arg(c)>> \in Left(c)
              \/ Op(c) = "list" /\ \E f \in Fields : a = <<"kill", field[obj[c]][f]>>
  <1>1. Live(c) /\ Left(c) = {Head(todo[c])} \cup Rest(c)
    BY Unfold DEF Moved
  <1>2. ~Fallen(c)
    BY FallenOps
  <1>3. PICK N : Pushed(c, N)
    BY <1>2, MovedOps
  <1>4. a \in Rest(c) \/ a[1] \in N
    BY <1>3 DEF Pushed, Adds
  <1>5. CASE a \in Rest(c)
    <2>1. Rank(a[1]) >= Rank(Op(c)) /\ Rank(a[1]) < 20
      BY <1>1, <1>5, Lowers, RankTable
    <2>2. ~(Rank(Op(c)) > 20)
      BY <2>1, RankType
    <2> QED
      BY <1>1, <1>3, <1>5, <2>2 DEF Pushed
  <1>6. CASE a \notin Rest(c)
    <2>1. a[1] \in N /\ Pushes(Op(c), N)
      BY <1>3, <1>4, <1>6 DEF Pushed
    <2>2. Op(c) \in {"list", "kill"}
      BY <2>1 DEF Pushes
    <2>3. ~Passed(c) /\ ~Starts(c) /\ ~StopsOrRecovers(c) /\ ~Delegates(c) /\ ~Tries(c)
      BY <1>6, <2>2 DEF Passed, Starts, StopsOrRecovers, Delegates, Tries
    <2>4. Clears(c)
      BY <1>2, <2>3 DEF Moved
    <2>5. CASE Op(c) = "list"
      <3>1. Left(c)' = {<<"kill", field[obj[c]][f]>> : f \in Fields} \cup {Do("clear")} \cup Rest(c)
        BY <2>4, <2>5 DEF Clears
      <3>2. a # Do("clear")
        BY DoName
      <3> QED
        BY <1>6, <2>4, <2>5, <3>1, <3>2 DEF Clears
    <2>6. CASE Op(c) = "kill"
      <3>1. Left(c)' = {<<"end", Arg(c)>>} \cup Rest(c)
        BY <2>4, <2>6 DEF Clears
      <3>2. <<"kill", Arg(c)>> \in Left(c)
        BY <1>1, <2>6, OpKinds
      <3> QED
        BY <1>6, <2>4, <2>6, <3>1, <3>2 DEF Clears
    <2> QED
      BY <2>2, <2>5, <2>6
  <1> QED
    BY <1>5, <1>6

LEMMA OwnedStep ==
    ASSUME TypeOK, Form, Bound, Owned, NEW c \in Calls, Step(c) \/ AwaitRaises(c)
    PROVE  Owned'
  <1>1. Well(c) /\ Moved(c) /\ (Same \/ Found(c))
    BY Moves, SameOrFound
  <1> DEFINE A == \A p \in Pids : Alive(p) => proc[p].of \in Objects
             B == \A o \in Objects, f \in Fields : Alive(field[o][f]) => proc[field[o][f]].of = o
             K == \A d \in Calls : \A a \in Left(d) :
                      a[1] \in {"kill", "end"} /\ Alive(a[2]) => proc[a[2]].of = obj[d]
  <1>2. A /\ B /\ K
    BY DEF Owned
  <1>3. \A o \in Objects, f \in Fields : field[o][f] \in Pids \cup {None}
    BY DEF TypeOK
  <1>4. \A d \in Calls : \A a \in Left(d) : a[1] \in {"kill", "end"} => a[2] \in Pids \cup {None}
    BY HasOps, StepKinds
  <1>5. \A d \in Calls \ {c} : Left(d)' = Left(d) /\ obj'[d] = obj[d]
    BY <1>1, Elsewhere
  <1>6. CASE Spawn(c)
    <2>1. PICK p \in Pids, g \in Fields :
              /\ ~Known(p) /\ Same /\ obj[c] \in Objects
              /\ Left(c) = {<<"spawn", g>>} \cup Rest(c) /\ Left(c)' = Rest(c)
              /\ proc' = [proc EXCEPT ![p] = [runs |-> IF g = "chrome" THEN "chrome" ELSE "desktop",
                                              of |-> obj[c]]]
              /\ field' = [field EXCEPT ![obj[c]][g] = p]
      BY <1>6, SpawnSteps
    <2>2. /\ p # None /\ \A o \in Objects, f \in Fields : field[o][f] # p
          /\ \A d \in Calls : \A a \in Left(d) : a[1] \in {"kill", "end"} => a[2] # p
      BY <2>1, Fresh
    <2>3. proc'[p].of = obj[c] /\ \A q \in Pids \ {p} : proc'[q] = proc[q]
      BY <2>1 DEF TypeOK
    <2>4. \A q \in Pids \cup {None} : q # p => (Alive(q)' <=> Alive(q)) /\ (Alive(q) => proc'[q] = proc[q])
      BY <2>3 DEF Alive
    <2>5. A'
      BY <1>2, <2>1, <2>3, <2>4
    <2>6. B'
      <3> SUFFICES ASSUME NEW o \in Objects, NEW f \in Fields, Alive(field[o][f])'
                   PROVE  proc'[field'[o][f]].of = o
        OBVIOUS
      <3>1. field'[o][f] = IF o = obj[c] /\ f = g THEN p ELSE field[o][f]
        BY <2>1 DEF TypeOK
      <3>2. CASE o = obj[c] /\ f = g
        BY <2>3, <3>1, <3>2
      <3>3. CASE ~(o = obj[c] /\ f = g)
        <4>1. field'[o][f] = field[o][f] /\ field[o][f] # p /\ field[o][f] \in Pids \cup {None}
          BY <1>3, <2>2, <3>1, <3>3
        <4>2. Alive(field[o][f]) /\ proc'[field[o][f]] = proc[field[o][f]]
          BY <2>4, <4>1 DEF Alive
        <4> QED
          BY <1>2, <4>1, <4>2
      <3> QED
        BY <3>2, <3>3
    <2>7. K'
      <3> SUFFICES ASSUME NEW d \in Calls, NEW a \in Left(d)', a[1] \in {"kill", "end"}, Alive(a[2])'
                   PROVE  proc'[a[2]].of = obj'[d]
        OBVIOUS
      <3>1. a \in Left(d) /\ obj'[d] = obj[d]
        BY <1>5, <2>1 DEF Same
      <3>2. a[2] # p /\ a[2] \in Pids \cup {None}
        BY <1>4, <2>2, <3>1
      <3>3. Alive(a[2]) /\ proc'[a[2]] = proc[a[2]]
        BY <2>4, <3>2 DEF Alive
      <3> QED
        BY <1>2, <3>1, <3>3
    <2> QED
      BY <2>5, <2>6, <2>7 DEF Owned
  <1>7. CASE ~Spawn(c)
    <2>1. \A q \in Pids : proc'[q] = proc[q] \/ proc'[q] = Nothing
      BY <1>7, Touches, EndSteps
    <2>2. \A q \in Pids \cup {None} : Alive(q)' => Alive(q) /\ proc'[q] = proc[q]
      BY <2>1 DEF Alive, Nothing
    <2>3. \A o \in Objects, f \in Fields : field'[o][f] = field[o][f] \/ field'[o][f] = None
      <3>1. CASE ClearFields(c)
        BY <3>1, ClearSteps DEF TypeOK
      <3> QED
        BY <1>7, <3>1, Touches
    <2>4. A'
      BY <1>2, <2>2
    <2>5. B'
      <3> SUFFICES ASSUME NEW o \in Objects, NEW f \in Fields, Alive(field[o][f])'
                   PROVE  proc'[field'[o][f]].of = o
        OBVIOUS
      <3>1. field'[o][f] = field[o][f] /\ field[o][f] \in Pids \cup {None}
        BY <1>3, <2>3 DEF Alive
      <3>2. Alive(field[o][f]) /\ proc'[field[o][f]] = proc[field[o][f]]
        BY <2>2, <3>1 DEF Alive
      <3> QED
        BY <1>2, <3>1, <3>2
    <2>6. K'
      <3> SUFFICES ASSUME NEW d \in Calls, NEW a \in Left(d)', a[1] \in {"kill", "end"}, Alive(a[2])'
                   PROVE  proc'[a[2]].of = obj'[d]
        OBVIOUS
      <3>1. CASE a \in Left(d) /\ obj'[d] = obj[d]
        <4>1. a[2] \in Pids \cup {None}
          BY <1>4, <3>1
        <4>2. Alive(a[2]) /\ proc'[a[2]] = proc[a[2]]
          BY <2>2, <4>1 DEF Alive
        <4> QED
          BY <1>2, <3>1, <4>2
      <3>2. CASE d = c /\ Same /\ a = <<"end", Arg(c)>> /\ <<"kill", Arg(c)>> \in Left(c)
        <4>1. Arg(c) \in Pids \cup {None} /\ a[2] = Arg(c)
          BY <1>4, <3>2
        <4>2. Alive(Arg(c)) /\ proc'[Arg(c)] = proc[Arg(c)]
          BY <2>2, <4>1 DEF Alive
        <4>3. proc[Arg(c)].of = obj[c]
          BY <1>2, <3>2, <4>2
        <4> QED
          BY <3>2, <4>1, <4>2, <4>3 DEF Same
      <3>3. CASE d = c /\ Same /\ Op(c) = "list" /\ \E f \in Fields : a = <<"kill", field[obj[c]][f]>>
        <4>1. PICK f \in Fields : a[2] = field[obj[c]][f]
          BY <3>3
        <4>2. Live(c) /\ Rank(Op(c)) < 20
          BY <1>1, <3>3, RankTable DEF Moved
        <4>3. obj[c] \in Objects
          BY <4>2, BoundAt
        <4>4. a[2] \in Pids \cup {None}
          BY <1>3, <4>1, <4>3
        <4>5. Alive(a[2]) /\ proc'[a[2]] = proc[a[2]]
          BY <2>2, <4>4 DEF Alive
        <4> QED
          BY <1>2, <3>3, <4>1, <4>3, <4>5 DEF Same
      <3> QED
        BY <1>1, <1>5, <3>1, <3>2, <3>3, KillsMoved DEF Same
    <2> QED
      BY <2>4, <2>5, <2>6 DEF Owned
  <1> QED
    BY <1>6, <1>7

-----------------------------------------------------------------------------
(* What a step of a call leaves to it, by names. *)

LEMMA HasOpsNext ==
    ASSUME NEW c \in Calls, todo' \in [Calls -> Seq(Steps)]
    PROVE  /\ \A names : Has(c, names)' <=> \E n \in names : n \in Ops(c)'
           /\ Live(c)' <=> Ops(c)' # {}
  <1>1. \A n : n \in Ops(c)' <=> \E i \in DOMAIN todo'[c] : todo'[c][i][1] = n
    BY DEF Ops, Names, Left, Range
  <1>2. \A names : Has(c, names)' <=> \E n \in names : n \in Ops(c)'
    BY <1>1 DEF Has
  <1>3. ASSUME ~Live(c)' PROVE Ops(c)' = {}
    <2>1. todo'[c] = <<>>
      BY <1>3 DEF Live
    <2> QED
      BY <2>1, <1>1
  <1> QED
    BY <1>2, <1>3, HeadOps

LEMMA HeadLowest ==
    ASSUME NEW c \in Calls, Well(c), Live(c)'
    PROVE  Op(c)' \in Ops(c)' /\ \A n \in Ops(c)' : Rank(Op(c)') <= Rank(n)
  <1>1. todo'[c] \in Seq(Steps) /\ todo'[c] # <<>> /\ Ordered(todo'[c])
    BY DEF Well, Live
  <1>2. /\ Left(c)' = {Head(todo'[c])} \cup Range(Tail(todo'[c]))
        /\ \A b \in Range(Tail(todo'[c])) : Before(Head(todo'[c]), b)
    BY <1>1, Split DEF Left
  <1>3. Op(c)' = Head(todo'[c])[1]
    BY DEF Op
  <1>4. \A b \in Left(c)' : b[1] = Op(c)' \/ Rank(Op(c)') < Rank(b[1])
    BY <1>2, <1>3 DEF Before
  <1>5. \A n \in Ops(c)' : n = Op(c)' \/ Rank(Op(c)') < Rank(n)
    BY <1>4 DEF Ops, Names
  <1>6. Op(c)' \in Ops(c)'
    BY HeadOps DEF Well
  <1> QED
    BY <1>5, <1>6, RankType

LEMMA OpLowest ==
    ASSUME TypeOK, Form, NEW c \in Calls, Live(c)
    PROVE  /\ Op(c) \in Ops(c) /\ \A n \in Ops(c) : Rank(Op(c)) <= Rank(n)
           /\ Names(Rest(c)) \subseteq Ops(c)
           /\ Op(c) \notin {"kill", "ready", "spawn"} => \A n \in Names(Rest(c)) : Rank(Op(c)) < Rank(n)
           /\ \A n \in Ops(c) : n = Op(c) \/ n \in Names(Rest(c))
  <1>1. Ops(c) = {Op(c)} \cup Names(Rest(c)) /\ Follow(Op(c), Names(Rest(c)))
    BY Unfold
  <1>2. \A n \in Names(Rest(c)) : Rank(Op(c)) < Rank(n) \/ (Op(c) = n /\ n \in {"kill", "ready", "spawn"})
    BY <1>1 DEF Follow
  <1> QED
    BY <1>1, <1>2, RankType

(* What a step that raises nothing leaves. *)
LEMMA PushedOps ==
    ASSUME TypeOK, Form, NEW c \in Calls, Live(c), NEW N, Pushed(c, N)
    PROVE  /\ Ops(c)' = N \cup Names(Rest(c)) /\ Rest(c) \subseteq Left(c)'
           /\ N \cap {"finished", "requeue", "remove", "booted", "failed", "work"} = {}
           /\ \A n \in Ops(c)' : n \in Ops(c) \/ n \in N
           /\ \A n \in Names(Rest(c)) : Rank(n) <= 20 => Same
           /\ N # {} => Pushes(Op(c), N)
           /\ "terminate" \in N <=> "spawn" \in N \/ (Op(c) = "stop" /\ "terminate" \in N)
  <1>1. /\ (N = {} /\ Op(c) \notin {"terminate", "list", "stop"}) \/ Pushes(Op(c), N)
        /\ Ops(c)' = N \cup Names(Rest(c)) /\ Rest(c) \subseteq Left(c)'
        /\ Same \/ (Found(c) /\ Rank(Op(c)) > 20)
    BY DEF Pushed, Adds
  <1>2. N \cap {"finished", "requeue", "remove", "booted", "failed", "work"} = {}
    BY <1>1 DEF Pushes
  <1>3. "terminate" \in N <=> "spawn" \in N \/ (Op(c) = "stop" /\ "terminate" \in N)
    BY <1>1 DEF Pushes
  <1>4. \A n \in Names(Rest(c)) : Rank(n) <= 20 => Same
    BY <1>1, OpLowest, RankType
  <1> QED
    BY <1>1, <1>2, <1>3, <1>4, OpLowest

(* Which action it is, unless an exception, that the head of todo stands for. *)
LEMMA Acts ==
    ASSUME TypeOK, Form, NEW c \in Calls, Step(c) \/ AwaitRaises(c)
    PROVE  \/ Fallen(c)
           \/ /\ Step(c) /\ Live(c)
              /\ Op(c) = "clear" => ClearFields(c)
              /\ Op(c) = "unserve" => StopBridge(c)
              /\ Op(c) = "spawn" => Spawn(c)
              /\ Op(c) = "connect" => Connect(c)
              /\ Op(c) = "list" => EndAll(c)
              /\ Op(c) = "end" => EndProcess(c)
              /\ Op(c) = "kill" => Kill(c)
  <1>1. CASE AwaitRaises(c) \/ Missing(c)
    <2>1. Live(c) /\ Raise(c) /\ Same
      BY <1>1 DEF AwaitRaises, Missing, Runs, Same
    <2> QED
      BY <2>1, Raises DEF Fallen
  <1>2. CASE JobTimesOut(c)
    <2>1. "generate" \in Ops(c) /\ todo' = [todo EXCEPT ![c] = HandleFailure] /\ Same /\ stranded' = stranded
      BY <1>2, HasOps DEF JobTimesOut, Same
    <2>2. Left(c)' = {Do("failed"), Do("recover"), Do("requeue")}
      BY <2>1, HandleFailureFacts, Replaced
    <2> QED
      BY <2>1, <2>2 DEF Fallen
  <1>3. CASE Step(c) /\ ~Missing(c) /\ ~JobTimesOut(c)
    BY <1>3 DEF Step, StartAccount, StopAccount, Stopped, Finishes, RecoverAccount,
         Remove, UpdateProxy, UpdateSettings, InstallExtension, EnsureRunning, MarkJobStarted,
         MarkJobFinished, Terminate, CloseContext, EndAll, Kill, EndProcess, ClearFields,
         StopBridge, StartBridge, Spawn, Connect, UsePage, SoftRecover, Execute, Pass, Require, Runs
  <1> QED
    BY <1>1, <1>2, <1>3

LEMMA JobMoved ==
    ASSUME TypeOK, Form, NEW c \in Calls, Moved(c)
    PROVE  \A n \in {"finished", "requeue"} : n \in Ops(c)' => n \in Ops(c) \/ "finished" \in Ops(c)
  <1>1. Live(c)
    BY DEF Moved
  <1>2. CASE Fallen(c)
    BY <1>2, FallenOps
  <1>3. ASSUME NEW N, Pushed(c, N)
        PROVE  \A n \in {"finished", "requeue"} : n \in Ops(c)' => n \in Ops(c)
    BY <1>1, <1>3, PushedOps
  <1> QED
    BY <1>2, <1>3, MovedOps

LEMMA GoneStep ==
    ASSUME TypeOK, Form, Bound, Gone, NEW c \in Calls, Step(c) \/ AwaitRaises(c)
    PROVE  Gone'
  <1>1. Well(c) /\ Moved(c) /\ (Same \/ Found(c)) /\ todo' \in [Calls -> Seq(Steps)]
    BY Moves, SameOrFound DEF Well
  <1>2. ASSUME NEW d \in Calls, IsJob(d)' PROVE IsJob(d)
    <2>1. CASE d = c
      <3>1. "finished" \in Ops(c)' \/ "requeue" \in Ops(c)'
        BY <1>1, <1>2, <2>1, HasOpsNext DEF IsJob
      <3>2. "finished" \in Ops(c) \/ "requeue" \in Ops(c)
        BY <1>1, <3>1, JobMoved
      <3> QED
        BY <2>1, <3>2, HasOps DEF IsJob
    <2>2. CASE d # c
      BY <1>1, <1>2, <2>2, Elsewhere DEF IsJob, Has
    <2> QED
      BY <2>1, <2>2
  <1>3. CASE Remove(c)
    BY <1>2, <1>3 DEF Remove, Gone
  <1>4. CASE current' = current
    BY <1>2, <1>4, Touches DEF Gone
  <1> QED
    BY <1>3, <1>4, Registered

LEMMA StrandedStep ==
    ASSUME TypeOK, Form, Bound, Gone, Stranded, Relaunch, Handler, Grown,
           NEW c \in Calls, Step(c) \/ AwaitRaises(c)
    PROVE  Stranded'
  <1>1. Well(c) /\ Moved(c) /\ (Same \/ Found(c)) /\ Live(c)
    BY Moves, SameOrFound DEF Moved
  <1>2. excused \subseteq excused' /\ overlapped \subseteq overlapped'
    BY Touches DEF Grown
  <1>3. c \notin stranded
    BY <1>1 DEF Stranded, Live
  <1>4. ASSUME NEW d \in stranded
        PROVE  todo'[d] = <<>> /\ (d \in excused' \/ obj'[d] \in overlapped')
    <2>1. d \in Calls \ {c}
      BY <1>3 DEF TypeOK
    <2> QED
      BY <1>1, <1>2, <2>1, Elsewhere DEF Stranded
  <1>5. CASE stranded' = stranded
    BY <1>4, <1>5 DEF Stranded
  <1>6. CASE /\ stranded' = stranded \cup {c} /\ stranded' # stranded /\ IsJob(c) /\ todo'[c] = <<>> /\ Same
             /\ "tried" \notin Ops(c) /\ ("finished" \in Ops(c) => Op(c) = "started")
    <2>1. "finished" \in Ops(c) \/ "requeue" \in Ops(c)
      BY <1>6, HasOps DEF IsJob
    <2>2. Op(c) # "started" => "requeue" \in Ops(c)
      BY <1>6, <2>1
    <2>3. c \in excused' \/ obj[c] \in overlapped
      <3>1. CASE Missing(c)
        BY <3>1, <1>2, <1>6 DEF Missing, Gone
      <3>2. CASE AwaitRaises(c)
        <4>1. Op(c) # "started"
          BY <3>2 DEF AwaitRaises, Runs
        <4>2. Has(c, {"requeue"})
          BY <2>2, <4>1, HasOps
        <4> QED
          BY <3>2, <4>2 DEF AwaitRaises
      <3>3. CASE StartBridge(c)
        <4>1. Op(c) = "serve" /\ serving
          BY <1>6, <3>3 DEF StartBridge, Runs, Goes
        <4>2. Rank(Op(c)) = 9
          BY <4>1, RankTable
        <4>3. \A n \in Ops(c) : Rank(n) >= 9
          BY <1>1, <4>2, OpLowest
        <4>4. NoneOf(c, Clearing \cup {"unserve"})
          BY <4>3, RankTable DEF NoneOf, Clearing
        <4>5. "serve" \in Ops(c) /\ "requeue" \in Ops(c)
          BY <1>1, <2>2, <4>1, OpLowest
        <4>6. ~Undisturbed(c)
          BY <4>1, <4>4, <4>5 DEF Handler
        <4> QED
          BY <1>2, <4>5, <4>6 DEF Undisturbed
      <3>4. CASE Connect(c)
        <4>1. Op(c) = "connect" /\ \A p \in Pids : proc[p].runs # "chrome"
          BY <1>6, <3>4 DEF Connect, Runs, Goes
        <4>2. Rank(Op(c)) = 13
          BY <4>1, RankTable
        <4>3. \A n \in Ops(c) : Rank(n) >= 13
          BY <1>1, <4>2, OpLowest
        <4>4. AllSpawned(c)
          <5>1. <<"spawn", "chrome">> \in Left(c) => "spawn" \in Ops(c)
            BY DEF Ops, Names
          <5> QED
            BY <4>3, <5>1, RankTable DEF AllSpawned
        <4>5. "connect" \in Ops(c) /\ "requeue" \in Ops(c)
          BY <1>1, <2>2, <4>1, OpLowest
        <4>6. "open" \in Ops(c)
          BY <1>6, <4>5 DEF Relaunch, NoneOf
        <4>7. ASSUME Undisturbed(c) PROVE FALSE
          <5>1. {"open", "connect"} \subseteq Ops(c)
            BY <4>5, <4>6
          <5>2. PICK p \in Pids : proc[p] = [runs |-> "chrome", of |-> obj[c]]
            BY <4>4, <4>7, <5>1 DEF Handler
          <5>3. proc[p].runs = "chrome"
            BY <5>2
          <5> QED
            BY <4>1, <5>3
        <4> QED
          BY <1>2, <4>5, <4>7 DEF Undisturbed
      <3>5. CASE UsePage(c)
        <4>1. Op(c) \in {"open", "visit"} /\ ~Alive(context[obj[c]])
          BY <1>6, <3>5 DEF UsePage, Runs, Goes
        <4>2. Op(c) # "visit"
          BY <1>1, <1>6, OpLowest DEF Form, Shape
        <4>3. Op(c) = "open" /\ "open" \in Ops(c) /\ "requeue" \in Ops(c)
          BY <1>1, <2>2, <4>1, <4>2, OpLowest
        <4>4. Rank(Op(c)) = 15
          BY <4>3, RankTable
        <4>5. "connect" \notin Ops(c)
          BY <1>1, <4>4, OpLowest, RankTable
        <4>6. ~Undisturbed(c)
          BY <4>1, <4>3, <4>5 DEF Handler
        <4> QED
          BY <1>2, <4>3, <4>6 DEF Undisturbed
      <3>6. CASE Execute(c)
        <4>1. Op(c) = "work"
          BY <3>6 DEF Execute, Runs
        <4>2. "finished" \in Ops(c)
          BY <1>1, <4>1, OpLowest DEF Form, Shape
        <4> QED
          BY <1>6, <4>1, <4>2
      <3> QED
        BY <1>6, <3>1, <3>2, <3>3, <3>4, <3>5, <3>6
        DEF Step, StartAccount, StopAccount, Stopped, Finishes, RecoverAccount,
            Remove, UpdateProxy, UpdateSettings, InstallExtension, EnsureRunning, MarkJobStarted,
            MarkJobFinished, Terminate, CloseContext, EndAll, Kill, EndProcess, ClearFields,
            StopBridge, Spawn, SoftRecover, JobTimesOut, Pass, Goes
    <2>4. c \in excused' \/ obj'[c] \in overlapped'
      BY <1>2, <1>6, <2>3 DEF Same
    <2> QED
      BY <1>4, <1>6, <2>4 DEF Stranded
  <1>7. stranded' = stranded \/ (/\ stranded' = stranded \cup {c} /\ IsJob(c) /\ todo'[c] = <<>> /\ Same
                                 /\ "tried" \notin Ops(c) /\ ("finished" \in Ops(c) => Op(c) = "started"))
    BY <1>1, MovedOps, FallenOps DEF Pushed
  <1> QED
    BY <1>5, <1>6, <1>7

-----------------------------------------------------------------------------
(* The recovery in a job's failure handler. *)

LEMMA RelaunchStep ==
    ASSUME TypeOK, Form, Bound, Relaunch, OneRuns, NEW c \in Calls, Step(c) \/ AwaitRaises(c)
    PROVE  Relaunch'
  <1>1. Well(c) /\ Moved(c) /\ (Same \/ Found(c)) /\ Live(c)
    BY Moves, SameOrFound DEF Moved
  <1>2. ASSUME NEW d \in Calls \ {c}, {"requeue", "start"} \subseteq Ops(d)' PROVE FALSE
    <2>1. {"requeue", "start"} \subseteq Ops(d)
      BY <1>1, <1>2, Elsewhere
    <2>2. Op(d) = "start" /\ Live(d)
      BY <2>1, HasOps DEF Relaunch
    <2>3. Suspended(d)
      BY Turn
    <2> QED
      BY <2>2, <2>3 DEF Suspended, Awaits
  <1>3. ASSUME NEW d \in Calls \ {c}, "requeue" \in Ops(d)', "connect" \in Ops(d)'
        PROVE  ~NoneOf(d, {"open", "tried"})'
    <2>1. Ops(d)' = Ops(d)
      BY <1>1, Elsewhere
    <2> QED
      BY <1>3, <2>1 DEF Relaunch, NoneOf
  <1>4. {"requeue", "start"} \subseteq Ops(c) => Op(c) = "start" /\ (current = None \/ ~Running(current))
    BY DEF Relaunch
  <1>5. ASSUME {"requeue", "start"} \subseteq Ops(c)'
        PROVE  Op(c)' = "start" /\ (current' = None \/ ~Running(current)')
    <2>1. ~Fallen(c)
      <3> SUFFICES ASSUME Fallen(c) PROVE FALSE
        OBVIOUS
      <3>1. "tried" \in Ops(c) /\ {"requeue", "start"} \subseteq Ops(c)
        BY <1>5, FallenOps
      <3>2. Op(c) = "start" /\ Rank(Op(c)) <= Rank("tried")
        BY <1>1, <1>4, <3>1, OpLowest
      <3> QED
        BY <3>2, RankTable
    <2>2. PICK N : Pushed(c, N)
      BY <1>1, <2>1, MovedOps
    <2>3. /\ Ops(c)' = N \cup Names(Rest(c)) /\ "requeue" \notin N
          /\ N # {} => Pushes(Op(c), N)
      BY <1>1, <2>2, PushedOps
    <2>4. "requeue" \in Names(Rest(c)) /\ "requeue" \in Ops(c)
      BY <1>1, <1>5, <2>3, OpLowest
    <2>5. "start" \notin Names(Rest(c))
      <3> SUFFICES ASSUME "start" \in Names(Rest(c)) PROVE FALSE
        OBVIOUS
      <3>1. Op(c) = "start"
        BY <1>1, <1>4, <2>4, OpLowest
      <3>2. Rank(Op(c)) < Rank("start")
        BY <1>1, <3>1, OpLowest
      <3> QED
        BY <3>1, <3>2, RankType
    <2>6. "start" \in N /\ Pushes(Op(c), N)
      BY <1>5, <2>3, <2>5
    <2>7. Op(c) \notin {"proxy", "settings", "ensure", "install"}
      <3>1. Without(Ops(c), {"stop", "ensure", "proxy", "settings", "install"})
        BY <2>4 DEF Form, Shape
      <3> QED
        BY <1>1, <3>1, OpLowest DEF Without
    <2>8. Op(c) = "recover" /\ N = {"start"}
      BY <2>6, <2>7 DEF Pushes
    <2>9. \A n \in Names(Rest(c)) : Rank(n) > 28
      <3>1. Rank(Op(c)) = 28
        BY <2>8, RankTable
      <3> QED
        BY <1>1, <2>8, <3>1, OpLowest
    <2>10. Op(c)' = "start"
      <3>1. Live(c)'
        BY <1>1, <1>5, HasOpsNext DEF Well
      <3>2. Op(c)' \in Ops(c)' /\ Rank(Op(c)') <= Rank("start")
        BY <1>1, <1>5, <3>1, HeadLowest
      <3>3. Rank("start") = 22
        BY RankTable
      <3>4. ~(Rank(Op(c)') > 28)
        BY <3>2, <3>3, RankType
      <3> QED
        BY <2>3, <2>8, <2>9, <3>2, <3>4
    <2>11. Rank(Op(c)) = 28
      BY <2>8, RankTable
    <2>12. StopsOrRecovers(c) \/ Passed(c)
      BY <1>1, <2>1, <2>8 DEF Moved, Starts, Delegates, Clears, Tries
    <2>13. ~Passed(c)
      <3> SUFFICES ASSUME Left(c)' = Rest(c) PROVE FALSE
        BY DEF Passed
      <3>1. Ops(c)' = Names(Rest(c))
        BY DEF Ops
      <3> QED
        BY <1>5, <2>5, <3>1
    <2>14. ~Running(current)
      <3> SUFFICES ASSUME Left(c)' = {<<"soft", 1>>, Do("ready")} \cup Rest(c) PROVE FALSE
        BY <2>8, <2>12, <2>13 DEF StopsOrRecovers
      <3>0. <<"soft", 1>>[1] = "soft" /\ Do("ready")[1] = "ready"
        BY DoName
      <3>1. Ops(c)' = {"soft", "ready"} \cup Names(Rest(c))
        BY <3>0 DEF Ops, Names
      <3> QED
        BY <1>5, <2>5, <3>1
    <2>15. current' = current /\ (Running(current)' <=> Running(current))
      <3>1. Op(c) \notin {"remove", "end", "spawn", "stopped"}
        BY <2>8
      <3>2. ~Remove(c) /\ ~EndProcess(c) /\ ~Spawn(c) /\ ~Stopped(c)
        BY <3>1 DEF Remove, EndProcess, Spawn, Stopped, Runs
      <3>3. current' = current /\ proc' = proc /\ pid' = pid
        BY <3>2, Registered, Touches
      <3> QED
        BY <3>3 DEF Running, Alive
    <2> QED
      BY <2>10, <2>14, <2>15
  <1>6. ASSUME "requeue" \in Ops(c)', "connect" \in Ops(c)'
        PROVE  ~NoneOf(c, {"open", "tried"})'
    <2>1. CASE Fallen(c)
      <3>1. Rank("connect") = 13 /\ Rank("tried") = 16
        BY RankTable
      <3>2. "open" \in Ops(c)'
        BY <1>6, <2>1, <3>1, FallenOps
      <3> QED
        BY <3>2 DEF NoneOf
    <2>2. ASSUME NEW N, Pushed(c, N), ~Fallen(c) PROVE ~NoneOf(c, {"open", "tried"})'
      <3>1. /\ Ops(c)' = N \cup Names(Rest(c)) /\ "requeue" \notin N
            /\ N # {} => Pushes(Op(c), N)
        BY <1>1, <2>2, PushedOps
      <3>2. "requeue" \in Names(Rest(c)) /\ "requeue" \in Ops(c)
        BY <1>1, <1>6, <3>1, OpLowest
      <3>3. CASE "connect" \in Names(Rest(c))
        <4>1. "connect" \in Ops(c) /\ Rank(Op(c)) <= Rank("connect")
          BY <1>1, <3>3, OpLowest
        <4>2. PICK n \in {"open", "tried"} : n \in Ops(c)
          BY <3>2, <4>1 DEF Relaunch, NoneOf
        <4>3. n # Op(c)
          BY <4>1, RankTable
        <4>4. n \in Ops(c)'
          BY <1>1, <3>1, <4>2, <4>3, OpLowest
        <4> QED
          BY <4>2, <4>4 DEF NoneOf
      <3>4. CASE "connect" \in N /\ "tried" \in N
        BY <3>1, <3>4 DEF NoneOf
      <3>5. CASE "connect" \in N /\ "open" \in N
        BY <3>1, <3>5 DEF NoneOf
      <3>6. CASE "connect" \in N /\ "open" \notin N /\ "tried" \notin N
        <4>1. Op(c) = "start" /\ N = {"connect", "ready"}
          BY <3>1, <3>6 DEF Pushes
        <4>2. Op(c) \in Ops(c)
          BY <1>1, OpLowest
        <4>3. current = None \/ ~Running(current)
          BY <1>4, <3>2, <4>1, <4>2
        <4>4. Starts(c) \/ Passed(c)
          BY <1>1, <2>2, <4>1 DEF Moved, StopsOrRecovers, Delegates, Clears, Tries
        <4>5. ~("connect" \in Names(Rest(c)))
          <5>1. Rank(Op(c)) = 22 /\ Rank("connect") = 13
            BY <4>1, RankTable
          <5> QED
            BY <1>1, <4>1, <5>1, OpLowest
        <4>6. ASSUME Left(c)' = Rest(c) \/ Left(c)' = {Do("ready")} \cup Rest(c) PROVE FALSE
          <5>1. Ops(c)' \subseteq {"ready"} \cup Names(Rest(c))
            BY <4>6, DoName DEF Ops, Names
          <5> QED
            BY <1>6, <4>5, <5>1
        <4>7. ASSUME Left(c)' = Range(Launch) \cup Rest(c) PROVE ~NoneOf(c, {"open", "tried"})'
          <5>1. Do("open") \in Left(c)' /\ Do("open")[1] = "open"
            BY <4>7, LaunchFacts, DoName
          <5>2. "open" \in Ops(c)'
            BY <5>1 DEF Ops, Names
          <5> QED
            BY <5>2 DEF NoneOf
        <4> QED
          BY <4>3, <4>4, <4>6, <4>7 DEF Starts, Passed, Found
      <3> QED
        BY <1>6, <3>1, <3>3, <3>4, <3>5, <3>6
    <2> QED
      BY <1>1, <2>1, <2>2, MovedOps
  <1> QED
    BY <1>2, <1>3, <1>5, <1>6 DEF Relaunch

-----------------------------------------------------------------------------
(* Every process is kept in a field. *)

LEMMA SpawnsLeft ==
    ASSUME NEW c \in Calls, NEW f, <<"spawn", f>> \in Left(c)
    PROVE  "spawn" \in Ops(c)
  BY DEF Ops, Names

(* At a spawn a runtime is clear; before it is cleared nothing is alive. *)
LEMMA AtSpawn ==
    ASSUME TypeOK, Form, NEW c \in Calls, Live(c), Op(c) = "spawn"
    PROVE  NoneOf(c, Clearing)
  <1>1. Rank(Op(c)) = 10
    BY RankTable
  <1>2. \A n \in Ops(c) : Rank(n) >= 10
    BY <1>1, OpLowest
  <1> QED
    BY <1>2, RankTable DEF NoneOf, Clearing

LEMMA AtClear ==
    ASSUME TypeOK, Form, Listed, NEW c \in Calls, Live(c), Op(c) = "clear", obj[c] \in Objects \ overlapped
    PROVE  \A f \in Fields : ~Alive(field[obj[c]][f])
  <1>1. Rank(Op(c)) = 6
    BY RankTable
  <1>2. \A n \in Ops(c) : Rank(n) >= 6
    BY <1>1, OpLowest
  <1>3. "clear" \in Ops(c) /\ NoneOf(c, {"terminate", "close", "list"})
    BY <1>2, OpLowest, RankTable DEF NoneOf
  <1>4. \A q : <<"kill", q>> \notin Left(c) /\ <<"end", q>> \notin Left(c)
    <2>1. \A a \in Left(c) : Rank(a[1]) >= 6
      BY <1>2 DEF Ops, Names
    <2>2. Rank("kill") = 5 /\ Rank("end") = 4
      BY RankTable
    <2>3. \A q : <<"kill", q>>[1] = "kill" /\ <<"end", q>>[1] = "end"
      OBVIOUS
    <2> QED
      BY <2>1, <2>2, <2>3
  <1> QED
    BY <1>3, <1>4 DEF Listed

LEMMA KeptStep ==
    ASSUME TypeOK, Form, Bound, Owned, Kept, Free, Listed, Ended, Grown,
           NEW c \in Calls, Step(c) \/ AwaitRaises(c)
    PROVE  Kept'
  <1>1. late \subseteq late' /\ overlapped \subseteq overlapped'
    BY Touches DEF Grown
  <1>2. \A p \in Pids : p # None
    BY NoneAssumption
  <1> DEFINE Held(p) == \/ proc[p].of \in overlapped \cup late
                        \/ /\ current \in Objects /\ proc[p].of = current
                           /\ \E f \in Fields : field[current][f] = p
  <1>0. \A p \in Pids : Alive(p) => Held(p)
    BY DEF Kept, Owned
  <1>3. CASE Spawn(c)
    <2>1. PICK p \in Pids, g \in Fields :
              /\ ~Known(p) /\ Op(c) = "spawn" /\ obj[c] \in Objects
              /\ obj[c] = current \/ obj[c] \in late
              /\ <<"spawn", g>> \in Left(c)
              /\ proc' = [proc EXCEPT ![p] = [runs |-> IF g = "chrome" THEN "chrome" ELSE "desktop",
                                              of |-> obj[c]]]
              /\ field' = [field EXCEPT ![obj[c]][g] = p]
              /\ current' = current /\ late' = late
      BY <1>3, SpawnSteps
    <2>2. Live(c)
      BY <1>3 DEF Spawn, Runs
    <2>3. proc'[p].of = obj[c] /\ \A q \in Pids \ {p} : proc'[q] = proc[q]
      BY <2>1 DEF TypeOK
    <2>4. obj[c] \in overlapped \/ field[obj[c]][g] = None
      BY <2>1, <2>2, AtSpawn DEF Free
    <2>5. field'[obj[c]][g] = p
      BY <2>1 DEF TypeOK
    <2>6. \A o \in Objects, f \in Fields : (o = obj[c] /\ f = g) \/ field'[o][f] = field[o][f]
      BY <2>1 DEF TypeOK
    <2> SUFFICES ASSUME NEW q \in Pids, Alive(q)'
                 PROVE  \/ proc'[q].of \in overlapped' \cup late'
                        \/ proc'[q].of = current' /\ \E f \in Fields : field'[current'][f] = q
      BY DEF Kept
    <2>7. CASE q = p
      BY <1>1, <2>1, <2>3, <2>5, <2>7
    <2>8. CASE q # p
      <3>1. Alive(q) /\ proc'[q] = proc[q]
        BY <2>3, <2>8 DEF Alive
      <3>2. CASE proc[q].of \in overlapped \cup late
        BY <1>1, <3>1, <3>2
      <3>3. CASE proc[q].of \notin overlapped /\ current \in Objects /\ proc[q].of = current
                 /\ \E f \in Fields : field[current][f] = q
        <4>1. PICK f \in Fields : field[current][f] = q
          BY <3>3
        <4>2. CASE current = obj[c] /\ f = g
          BY <1>2, <2>4, <3>3, <4>1, <4>2
        <4>3. CASE ~(current = obj[c] /\ f = g)
          <5>1. field'[current][f] = q
            BY <2>6, <3>3, <4>1, <4>3
          <5> QED
            BY <2>1, <3>1, <3>3, <5>1
        <4> QED
          BY <3>3, <4>2, <4>3
      <3> QED
        BY <1>0, <3>1, <3>2, <3>3
    <2> QED
      BY <2>7, <2>8
  <1>4. CASE ClearFields(c)
    <2>1. /\ Op(c) = "clear" /\ obj[c] \in Objects
          /\ field' = [field EXCEPT ![obj[c]] = [f \in Fields |-> None]]
          /\ proc' = proc /\ current' = current /\ late' = late
      BY <1>4, ClearSteps
    <2>2. Live(c)
      BY <1>4 DEF ClearFields, Runs
    <2>3. \A o \in Objects : o # obj[c] => field'[o] = field[o]
      BY <2>1 DEF TypeOK
    <2>4. obj[c] \in overlapped \/ \A f \in Fields : ~Alive(field[obj[c]][f])
      BY <2>1, <2>2, AtClear
    <2> SUFFICES ASSUME NEW q \in Pids, Alive(q)
                 PROVE  \/ proc[q].of \in overlapped' \cup late'
                        \/ proc[q].of = current /\ \E f \in Fields : field'[current][f] = q
      BY <2>1 DEF Kept, Alive
    <2>5. CASE current = obj[c]
      BY <1>0, <1>1, <2>4, <2>5
    <2>6. CASE current # obj[c]
      BY <1>0, <1>1, <2>3, <2>6
    <2> QED
      BY <2>5, <2>6
  <1>5. CASE Remove(c)
    <2>1. /\ Live(c) /\ Op(c) = "remove" /\ proc' = proc
          /\ late' = IF current # None /\ (obj[c] # current \/ \E d \in Calls \ {c} : AtWork(d, current))
                     THEN late \cup {current} ELSE late
      BY <1>5 DEF Remove, Runs, runtimeVars
    <2>2. obj[c] \in overlapped \cup late \/ \A p \in Pids : Alive(p) => proc[p].of # obj[c]
      <3>1. Rank(Op(c)) = 36
        BY <2>1, RankTable
      <3>2. "remove" \in Ops(c) /\ \A n \in Ops(c) : Rank(n) >= 36
        BY <2>1, <3>1, OpLowest
      <3>3. ~NoneOf(c, {"stopped", "remove"}) /\ NoneOf(c, Clearing \cup {"stop"})
        BY <3>2, RankTable DEF NoneOf, Clearing
      <3> QED
        BY <3>3 DEF Ended
    <2> SUFFICES ASSUME NEW q \in Pids, Alive(q)
                 PROVE  proc[q].of \in overlapped' \cup late'
      BY <2>1 DEF Kept, Alive
    <2>3. proc[q].of \in overlapped \cup late \/ (proc[q].of = current /\ current \in Objects)
      BY <1>0
    <2>4. CASE proc[q].of = current /\ obj[c] = current
      BY <1>1, <2>2, <2>4
    <2>5. CASE proc[q].of = current /\ obj[c] # current /\ current \in Objects
      <3>1. current # None
        BY <2>5, NoneAssumption
      <3> QED
        BY <2>1, <2>5, <3>1
    <2> QED
      BY <1>1, <2>3, <2>4, <2>5
  <1>6. CASE ~Spawn(c) /\ ~ClearFields(c) /\ ~Remove(c)
    <2>1. field' = field /\ current' = current
      BY <1>6, Touches, Registered
    <2>2. \A q \in Pids : proc'[q] = proc[q] \/ proc'[q] = Nothing
      BY <1>6, Touches, EndSteps
    <2>3. \A q \in Pids : Alive(q)' => Alive(q) /\ proc'[q] = proc[q]
      BY <2>2 DEF Alive, Nothing
    <2> QED
      BY <1>1, <2>1, <2>3 DEF Kept
  <1> QED
    BY <1>3, <1>4, <1>5, <1>6

-----------------------------------------------------------------------------
(* What a runtime's fields refer to. *)

(* A call that works on the object of a launch shows in overlapped. *)
LEMMA Meets ==
    ASSUME TypeOK, Overlaps, NEW c \in Calls, NEW d \in Calls, c # d, obj[c] = obj[d],
           obj[c] \in Objects, "spawn" \in Ops(c),
           ~NoneOf(d, {"spawn", "close", "end", "clear", "stopped"})
    PROVE  obj[c] \in overlapped
  <1>1. Launches(c, obj[c])
    BY HasOps DEF Launches
  <1>2. Launches(d, obj[c]) \/ Ends(d, obj[c])
    BY HasOps DEF Launches, Ends, NoneOf
  <1> QED
    BY <1>1, <1>2 DEF Overlap, Overlaps

(* When the last step of an ending goes, the fields are cleared. *)
LEMMA Cleared ==
    ASSUME TypeOK, Form, NEW c \in Calls, Live(c), NEW N, Pushed(c, N), ~NoneOf(c, Clearing), NoneOf(c, Clearing)'
    PROVE  Op(c) = "clear"
  <1>1. /\ Ops(c)' = N \cup Names(Rest(c)) /\ (N # {} => Pushes(Op(c), N))
        /\ N = {} => Op(c) \notin {"terminate", "list"}
    BY PushedOps DEF Pushed, Pushes
  <1>2. \A n \in Clearing : n \notin N /\ n \notin Names(Rest(c))
    BY <1>1 DEF NoneOf
  <1>3. Op(c) \in Clearing
    BY <1>2, OpLowest DEF NoneOf
  <1>4. Op(c) # "terminate"
    BY <1>1, <1>2 DEF Pushes, Clearing
  <1>5. Op(c) # "list"
    BY <1>1, <1>2 DEF Pushes, Clearing
  <1>6. Op(c) # "close"
    <2> SUFFICES ASSUME Op(c) = "close" PROVE FALSE
      OBVIOUS
    <2>1. "list" \in Ops(c) /\ "list" # Op(c)
      BY OpLowest DEF Form, Shape
    <2> QED
      BY <1>2, <2>1, OpLowest DEF Clearing
  <1>7. Op(c) \notin {"kill", "end"}
    <2> SUFFICES ASSUME Op(c) \in {"kill", "end"} PROVE FALSE
      OBVIOUS
    <2>1. "clear" \in Ops(c) /\ "clear" # Op(c)
      BY OpLowest DEF Form, Shape
    <2> QED
      BY <1>2, <2>1, OpLowest DEF Clearing
  <1> QED
    BY <1>3, <1>4, <1>5, <1>6, <1>7 DEF Clearing

LEMMA FreeStep ==
    ASSUME TypeOK, Form, Bound, Free, Overlaps, Grown, NEW c \in Calls, Step(c) \/ AwaitRaises(c)
    PROVE  Free'
  <1>1. Well(c) /\ Moved(c) /\ (Same \/ Found(c)) /\ Live(c)
    BY Moves, SameOrFound DEF Moved
  <1>2. overlapped \subseteq overlapped'
    BY DEF Grown
  <1>3. ASSUME NEW d \in Calls \ {c}, NoneOf(d, Clearing)', obj'[d] \in Objects \ overlapped',
               NEW f \in Fields, <<"spawn", f>> \in Left(d)'
        PROVE  field'[obj'[d]][f] = None
    <2>1. /\ Left(d)' = Left(d) /\ Ops(d)' = Ops(d) /\ obj'[d] = obj[d]
      BY <1>1, Elsewhere
    <2>2. /\ obj[d] \in Objects \ overlapped /\ "spawn" \in Ops(d) /\ <<"spawn", f>> \in Left(d)
          /\ NoneOf(d, Clearing)
      BY <1>2, <1>3, <2>1, SpawnsLeft DEF NoneOf
    <2>3. field[obj[d]][f] = None
      BY <2>2 DEF Free
    <2>4. CASE ClearFields(c)
      <3>1. field' = [field EXCEPT ![obj[c]] = [g \in Fields |-> None]]
        BY <2>4, ClearSteps
      <3>2. field'[obj[d]] = IF obj[d] = obj[c] THEN [g \in Fields |-> None] ELSE field[obj[d]]
        BY <2>2, <3>1 DEF TypeOK
      <3> QED
        BY <2>1, <2>3, <3>2
    <2>5. CASE Spawn(c)
      <3>1. PICK p \in Pids, g \in Fields :
                obj[c] \in Objects /\ <<"spawn", g>> \in Left(c) /\ field' = [field EXCEPT ![obj[c]][g] = p]
        BY <2>5, SpawnSteps
      <3>2. obj[c] # obj[d]
        <4> SUFFICES ASSUME obj[c] = obj[d] PROVE FALSE
          OBVIOUS
        <4>1. "spawn" \in Ops(c)
          BY <3>1, SpawnsLeft
        <4> QED
          BY <2>2, <3>1, <4>1, Meets DEF NoneOf
      <3>3. field'[obj[d]] = field[obj[d]]
        BY <2>2, <3>1, <3>2 DEF TypeOK
      <3> QED
        BY <2>1, <2>3, <3>3
    <2> QED
      BY <2>1, <2>3, <2>4, <2>5, Touches
  <1>4. ASSUME NoneOf(c, Clearing)', obj'[c] \in Objects \ overlapped',
               NEW f \in Fields, <<"spawn", f>> \in Left(c)'
        PROVE  field'[obj'[c]][f] = None
    <2>1. ~Fallen(c)
      BY <1>4, FallenOps DEF NoneOf, Clearing
    <2>2. PICK N : Pushed(c, N)
      BY <1>1, <2>1, MovedOps
    <2>3. "spawn" \notin N
      <3>1. "terminate" \notin N
        BY <1>1, <1>4, <2>2, PushedOps DEF NoneOf, Clearing
      <3> QED
        BY <1>1, <2>2, <3>1, PushedOps
    <2>4. <<"spawn", f>> \in Rest(c)
      BY <1>4, <2>2, <2>3 DEF Pushed, Adds
    <2>5. "spawn" \in Names(Rest(c))
      BY <2>4 DEF Names
    <2>6. Same
      BY <1>1, <2>2, <2>5, PushedOps, RankTable
    <2>7. obj'[c] = obj[c] /\ obj[c] \in Objects \ overlapped
      BY <1>2, <1>4, <2>6 DEF Same
    <2>8. CASE NoneOf(c, Clearing)
      <3>1. <<"spawn", f>> \in Left(c)
        BY <1>1, <2>4, Unfold
      <3>2. field[obj[c]][f] = None
        BY <2>7, <2>8, <3>1 DEF Free
      <3>3. CASE Spawn(c)
        <4>1. PICK p \in Pids, g \in Fields :
                  <<"spawn", g>> \notin Left(c)' /\ field' = [field EXCEPT ![obj[c]][g] = p]
          BY <3>3, SpawnSteps
        <4>2. f # g
          BY <1>4, <4>1
        <4>3. field'[obj[c]][f] = field[obj[c]][f]
          BY <2>7, <4>1, <4>2 DEF TypeOK
        <4> QED
          BY <2>7, <3>2, <4>3
      <3>4. CASE ClearFields(c)
        <4>1. field' = [field EXCEPT ![obj[c]] = [g \in Fields |-> None]]
          BY <3>4, ClearSteps
        <4> QED
          BY <2>7, <4>1 DEF TypeOK
      <3> QED
        BY <2>7, <3>2, <3>3, <3>4, Touches
    <2>9. CASE ~NoneOf(c, Clearing)
      <3>1. Op(c) = "clear"
        BY <1>1, <1>4, <2>2, <2>9, Cleared
      <3>2. ClearFields(c)
        BY <2>1, <3>1, Acts
      <3>3. field' = [field EXCEPT ![obj[c]] = [g \in Fields |-> None]]
        BY <3>2, ClearSteps
      <3> QED
        BY <2>7, <3>3 DEF TypeOK
    <2> QED
      BY <2>8, <2>9
  <1> QED
    BY <1>3, <1>4 DEF Free

LEMMA ListedStep ==
    ASSUME TypeOK, Form, Bound, Listed, Overlaps, Grown, NEW c \in Calls, Step(c) \/ AwaitRaises(c)
    PROVE  Listed'
  <1>1. Well(c) /\ Moved(c) /\ (Same \/ Found(c)) /\ Live(c)
    BY Moves, SameOrFound DEF Moved
  <1>2. overlapped \subseteq overlapped'
    BY DEF Grown
  <1>3. \A o \in Objects, f \in Fields : field[o][f] \in Pids \cup {None}
    BY DEF TypeOK
  <1>4. ASSUME ~Spawn(c)
        PROVE  \A o \in Objects, f \in Fields :
                   Alive(field[o][f])' => Alive(field[o][f]) /\ field'[o][f] = field[o][f]
    <2>1. \A q \in Pids : proc'[q] = proc[q] \/ proc'[q] = Nothing
      BY <1>4, Touches, EndSteps
    <2>2. \A q \in Pids \cup {None} : Alive(q)' => Alive(q)
      BY <2>1 DEF Alive, Nothing
    <2>3. \A o \in Objects, f \in Fields : field'[o][f] = field[o][f] \/ field'[o][f] = None
      <3>1. CASE ClearFields(c)
        <4>1. field' = [field EXCEPT ![obj[c]] = [f \in Fields |-> None]]
          BY <3>1, ClearSteps
        <4> QED
          BY <4>1 DEF TypeOK
      <3> QED
        BY <1>4, <3>1, Touches
    <2> QED
      BY <1>3, <2>2, <2>3 DEF Alive
  <1>5. ASSUME NEW d \in Calls \ {c}, "clear" \in Ops(d)', NoneOf(d, {"terminate", "close", "list"})',
               obj'[d] \in Objects \ overlapped', NEW f \in Fields, Alive(field[obj[d]][f])'
        PROVE  \/ <<"kill", field'[obj'[d]][f]>> \in Left(d)'
               \/ <<"end", field'[obj'[d]][f]>> \in Left(d)'
    <2>1. /\ Left(d)' = Left(d) /\ Ops(d)' = Ops(d) /\ obj'[d] = obj[d]
      BY <1>1, Elsewhere
    <2>2. /\ obj[d] \in Objects \ overlapped /\ "clear" \in Ops(d)
          /\ NoneOf(d, {"terminate", "close", "list"})
      BY <1>2, <1>5, <2>1 DEF NoneOf
    <2>3. field'[obj[d]][f] = field[obj[d]][f] /\ Alive(field[obj[d]][f])
      <3>1. CASE Spawn(c)
        <4>1. PICK p \in Pids, g \in Fields :
                  /\ ~Known(p) /\ obj[c] \in Objects /\ <<"spawn", g>> \in Left(c)
                  /\ field' = [field EXCEPT ![obj[c]][g] = p]
                  /\ proc' = [proc EXCEPT ![p] = [runs |-> IF g = "chrome" THEN "chrome" ELSE "desktop",
                                                  of |-> obj[c]]]
          BY <3>1, SpawnSteps
        <4>2. obj[c] # obj[d]
          <5> SUFFICES ASSUME obj[c] = obj[d] PROVE FALSE
            OBVIOUS
          <5>1. "spawn" \in Ops(c)
            BY <4>1, SpawnsLeft
          <5> QED
            BY <2>2, <4>1, <5>1, Meets DEF NoneOf
        <4>3. field'[obj[d]] = field[obj[d]]
          BY <2>2, <4>1, <4>2 DEF TypeOK
        <4>4. field[obj[d]][f] # p
          BY <2>2, <4>1, Fresh
        <4>5. field[obj[d]][f] \in Pids /\ proc'[field[obj[d]][f]] = proc[field[obj[d]][f]]
          BY <1>3, <1>5, <2>1, <2>2, <4>1, <4>3, <4>4 DEF TypeOK, Alive
        <4> QED
          BY <1>5, <2>1, <4>3, <4>5 DEF Alive
      <3>2. CASE ~Spawn(c)
        BY <1>4, <1>5, <2>1, <2>2, <3>2
      <3> QED
        BY <3>1, <3>2
    <2> QED
      BY <2>1, <2>2, <2>3 DEF Listed
  <1>6. ASSUME "clear" \in Ops(c)', NoneOf(c, {"terminate", "close", "list"})',
               obj'[c] \in Objects \ overlapped', NEW f \in Fields, Alive(field[obj[c]][f])'
        PROVE  \/ <<"kill", field'[obj'[c]][f]>> \in Left(c)'
               \/ <<"end", field'[obj'[c]][f]>> \in Left(c)'
    <2>0. ~Fallen(c)
      <3>1. Rank("clear") = 6 /\ Rank("tried") = 16
        BY RankTable
      <3> QED
        BY <1>6, <3>1, FallenOps DEF NoneOf
    <2>1. PICK N : Pushed(c, N)
      BY <1>1, <2>0, MovedOps
    <2>2. CASE "clear" \in N
      <3>1. Op(c) = "list"
        BY <1>1, <2>1, <2>2, PushedOps DEF Pushes
      <3>2. EndAll(c)
        BY <2>0, <3>1, Acts
      <3>3. field' = field /\ Same /\ ~Spawn(c)
        BY <3>2, <3>1 DEF EndAll, Same, runtimeVars, Spawn, Runs
      <3>4. Clears(c)
        BY <1>1, <2>0, <3>1 DEF Moved, Passed, Starts, StopsOrRecovers, Delegates, Tries
      <3>5. <<"kill", field[obj[c]][f]>> \in Left(c)'
        BY <3>1, <3>4 DEF Clears
      <3> QED
        BY <3>3, <3>5 DEF Same
    <2>3. CASE "clear" \notin N
      <3>1. "clear" \in Names(Rest(c)) /\ "clear" \in Ops(c) /\ Rest(c) \subseteq Left(c)'
        BY <1>1, <1>6, <2>1, <2>3, PushedOps, OpLowest
      <3>2. Same /\ Rank(Op(c)) <= 6
        BY <1>1, <2>1, <3>1, PushedOps, OpLowest, RankTable
      <3>3. Op(c) # "spawn" /\ Op(c) # "clear"
        <4>1. Op(c) # "clear"
          <5> SUFFICES ASSUME Op(c) = "clear" PROVE FALSE
            OBVIOUS
          <5>1. Rank("clear") < Rank("clear")
            BY <1>1, <3>1, OpLowest
          <5> QED
            BY <5>1, RankTable
        <4> QED
          BY <3>2, <4>1, RankTable
      <3>4. Without(Ops(c), {"terminate", "list"}) /\ Op(c) \notin {"close"}
        <4>1. Without(Ops(c), {"terminate", "list"})
          BY <3>1 DEF Form, Shape, Without
        <4>2. "close" \notin Ops(c)
          BY <4>1 DEF Form, Shape, Without
        <4> QED
          BY <1>1, <4>1, <4>2, OpLowest
      <3>5. NoneOf(c, {"terminate", "close", "list"})
        <4>1. "close" \notin Ops(c)
          BY <3>4 DEF Form, Shape, Without
        <4> QED
          BY <3>4, <4>1 DEF NoneOf, Without
      <3>6. ~Spawn(c) /\ ~ClearFields(c)
        BY <3>3 DEF Spawn, ClearFields, Runs
      <3>7. obj[c] \in Objects \ overlapped /\ obj'[c] = obj[c]
        BY <1>2, <1>6, <3>2 DEF Same
      <3>8. Alive(field[obj[c]][f]) /\ field'[obj[c]][f] = field[obj[c]][f]
        BY <1>4, <1>6, <3>6, <3>7
      <3> PICK q : q = field[obj[c]][f]
        OBVIOUS
      <3>9. <<"kill", q>> \in Left(c) \/ <<"end", q>> \in Left(c)
        BY <3>1, <3>5, <3>7, <3>8 DEF Listed
      <3>10. Left(c) = {Head(todo[c])} \cup Rest(c)
        BY <1>1, Unfold
      <3> SUFFICES <<"kill", q>> \in Left(c)' \/ <<"end", q>> \in Left(c)'
        BY <3>7, <3>8
      <3>13. q \in Pids \cup {None}
        BY <1>3, <3>7
      <3>14. Alive(q) /\ Alive(q)'
        BY <1>6, <3>7, <3>8 DEF Alive
      <3>11. CASE Head(todo[c]) = <<"kill", q>>
        <4>1. Op(c) = "kill" /\ Arg(c) = q
          BY <3>11 DEF Op, Arg
        <4>2. ~Passed(c) /\ ~Starts(c) /\ ~StopsOrRecovers(c) /\ ~Delegates(c) /\ ~Tries(c)
          BY <3>14, <4>1 DEF Passed, Starts, StopsOrRecovers, Delegates, Tries
        <4>3. Clears(c)
          BY <1>1, <2>0, <4>2 DEF Moved
        <4> QED
          BY <4>1, <4>3 DEF Clears
      <3>12. CASE Head(todo[c]) = <<"end", q>>
        <4>1. Op(c) = "end" /\ Arg(c) = q
          BY <3>12 DEF Op, Arg
        <4>2. EndProcess(c)
          BY <2>0, <4>1, Acts
        <4>3. q \in Pids
          BY <3>13, <3>14 DEF Alive
        <4>4. proc'[q] = Nothing
          BY <4>1, <4>2, <4>3, EndSteps
        <4> QED
          BY <3>14, <4>4 DEF Alive, Nothing
      <3> QED
        BY <3>1, <3>9, <3>10, <3>11, <3>12
    <2> QED
      BY <2>2, <2>3
  <1> QED
    BY <1>5, <1>6 DEF Listed

-----------------------------------------------------------------------------
(* After an ending nothing runs. *)

LEMMA EndedStep ==
    ASSUME TypeOK, Form, Bound, OneRuns, Owned, Kept, Listed, Ended, Overlaps, Grown,
           NEW c \in Calls, Step(c) \/ AwaitRaises(c)
    PROVE  Ended'
  <1>1. Well(c) /\ Moved(c) /\ (Same \/ Found(c)) /\ Live(c)
    BY Moves, SameOrFound DEF Moved
  <1>2. overlapped \subseteq overlapped' /\ late \subseteq late'
    BY Touches DEF Grown
  <1>3. ASSUME ~Spawn(c)
        PROVE  \A q \in Pids : Alive(q)' => Alive(q) /\ proc'[q] = proc[q]
    <2>1. \A q \in Pids : proc'[q] = proc[q] \/ proc'[q] = Nothing
      BY <1>3, Touches, EndSteps
    <2> QED
      BY <2>1 DEF Alive, Nothing
  <1>4. ASSUME NEW d \in Calls \ {c}, ~NoneOf(d, {"stopped", "remove"})',
               NoneOf(d, Clearing \cup {"stop"})', obj'[d] \notin overlapped' \cup late',
               NEW q \in Pids, Alive(q)'
        PROVE  proc'[q].of # obj'[d]
    <2>1. /\ Ops(d)' = Ops(d) /\ obj'[d] = obj[d] /\ todo'[d] = todo[d]
      BY <1>1, Elsewhere
    <2>2. /\ obj[d] \notin overlapped \cup late /\ ~NoneOf(d, {"stopped", "remove"})
          /\ NoneOf(d, Clearing \cup {"stop"})
      BY <1>2, <1>4, <2>1 DEF NoneOf
    <2>3. CASE ~Spawn(c)
      BY <1>3, <1>4, <2>1, <2>2, <2>3 DEF Ended
    <2>4. CASE Spawn(c)
      <3>1. PICK p \in Pids, g \in Fields :
                /\ obj[c] \in Objects /\ <<"spawn", g>> \in Left(c)
                /\ proc' = [proc EXCEPT ![p] = [runs |-> IF g = "chrome" THEN "chrome" ELSE "desktop",
                                                of |-> obj[c]]]
        BY <2>4, SpawnSteps
      <3>2. obj[c] # obj[d]
        <4> SUFFICES ASSUME obj[c] = obj[d] PROVE FALSE
          OBVIOUS
        <4>1. "spawn" \in Ops(c)
          BY <3>1, SpawnsLeft
        <4>2. "stopped" \notin Ops(d)
          BY <2>2, <3>1, <4>1, Meets DEF NoneOf
        <4>3. "remove" \in Ops(d)
          BY <2>2, <4>2 DEF NoneOf
        <4>4. \A n \in Ops(d) : n = "remove"
          BY <2>2, <4>2, <4>3 DEF Form, Shape, NoneOf, Without
        <4>5. Live(d) /\ Op(d) = "remove"
          BY <4>3, <4>4, HasOps, OpLowest
        <4>6. Suspended(d)
          BY Turn
        <4> QED
          BY <4>5, <4>6 DEF Suspended, Awaits
      <3>3. CASE q = p
        BY <2>1, <3>1, <3>2, <3>3 DEF TypeOK
      <3>4. CASE q # p
        <4>1. proc'[q] = proc[q] /\ Alive(q)
          BY <1>4, <3>1, <3>4 DEF TypeOK, Alive
        <4> QED
          BY <2>1, <2>2, <4>1 DEF Ended
      <3> QED
        BY <3>3, <3>4
    <2> QED
      BY <2>3, <2>4
  <1>5. ASSUME ~NoneOf(c, {"stopped", "remove"})',
               NoneOf(c, Clearing \cup {"stop"})', obj'[c] \notin overlapped' \cup late',
               NEW q \in Pids, Alive(q)'
        PROVE  proc'[q].of # obj'[c]
    <2>1. ~Fallen(c)
      <3> SUFFICES ASSUME Fallen(c) PROVE FALSE
        OBVIOUS
      <3>1. /\ "tried" \in Ops(c)
            /\ "stopped" \in Ops(c) \/ "remove" \in Ops(c)
        BY <1>5, FallenOps DEF NoneOf
      <3>2. "stopped" \notin Ops(c)
        BY <3>1 DEF Form, Shape, Without
      <3>3. "remove" \notin Ops(c)
        BY <3>1 DEF Form, Shape, Clearing
      <3> QED
        BY <3>1, <3>2, <3>3
    <2>2. PICK N : Pushed(c, N)
      BY <1>1, <2>1, MovedOps
    <2>3. /\ Ops(c)' = N \cup Names(Rest(c)) /\ (N # {} => Pushes(Op(c), N)) /\ "remove" \notin N
          /\ N = {} => Op(c) \notin {"terminate", "list", "stop"}
          /\ \A n \in Names(Rest(c)) : Rank(n) <= 20 => Same
      BY <1>1, <2>2, PushedOps DEF Pushed, Pushes
    <2>4. \A n \in Clearing \cup {"stop"} : n \notin N /\ n \notin Names(Rest(c))
      BY <1>5, <2>3 DEF NoneOf
    <2>5. "stopped" \notin N
      BY <2>3, <2>4 DEF Pushes, Clearing
    <2>6. PICK m \in {"stopped", "remove"} : m \in Names(Rest(c))
      BY <1>5, <2>3, <2>5 DEF NoneOf
    <2>7. m \in Ops(c) /\ ~NoneOf(c, {"stopped", "remove"})
      BY <1>1, <2>6, OpLowest DEF NoneOf
    <2>8. Op(c) # "stop"
      <3> SUFFICES ASSUME Op(c) = "stop" PROVE FALSE
        OBVIOUS
      <3>1. "terminate" \in N
        BY <2>3 DEF Pushes
      <3> QED
        BY <2>4, <3>1 DEF Clearing
    <2>9. Same
      <3>1. CASE m = "stopped"
        BY <2>3, <2>6, <3>1, RankTable
      <3>2. CASE m = "remove"
        <4>1. Op(c) \in Clearing \cup {"stop", "unserve", "drain", "stopped", "remove"}
          BY <1>1, <2>7, <3>2, OpLowest DEF Form, Shape
        <4>2. Op(c) # "remove"
          <5> SUFFICES ASSUME Op(c) = "remove" PROVE FALSE
            OBVIOUS
          <5>1. Rank("remove") < Rank("remove")
            BY <1>1, <2>6, <3>2, OpLowest
          <5> QED
            BY <5>1, RankTable
        <4>3. ~(Rank(Op(c)) > 20)
          BY <2>8, <4>1, <4>2, RankTable DEF Clearing
        <4> QED
          BY <2>2, <4>3 DEF Pushed
      <3> QED
        BY <3>1, <3>2
    <2>10. obj'[c] = obj[c] /\ obj[c] \notin overlapped \cup late
      BY <1>2, <1>5, <2>9 DEF Same
    <2>11. ~Spawn(c)
      <3> SUFFICES ASSUME Spawn(c) PROVE FALSE
        OBVIOUS
      <3>1. "spawn" \in Ops(c)
        BY <1>1, OpLowest DEF Spawn, Runs
      <3>2. m # "stopped"
        BY <2>7, <3>1 DEF Form, Shape, Without
      <3>3. m # "remove"
        BY <2>7, <3>1 DEF Form, Shape, Clearing
      <3> QED
        BY <3>2, <3>3
    <2>12. Alive(q) /\ proc'[q] = proc[q]
      BY <1>3, <1>5, <2>11
    <2>13. CASE NoneOf(c, Clearing \cup {"stop"})
      BY <2>7, <2>10, <2>12, <2>13 DEF Ended
    <2>14. CASE ~NoneOf(c, Clearing \cup {"stop"})
      <3>1. ~NoneOf(c, Clearing) /\ NoneOf(c, Clearing)'
        <4>1. "stop" \notin Ops(c)
          BY <1>1, <2>4, <2>8, OpLowest
        <4> QED
          BY <1>5, <2>14, <4>1 DEF NoneOf
      <3>2. Op(c) = "clear"
        BY <1>1, <2>2, <3>1, Cleared
      <3>3. Rank(Op(c)) < 20
        BY <3>2, RankTable
      <3>4. obj[c] \in Objects \ overlapped /\ (obj[c] = current \/ obj[c] \in late)
        BY <1>1, <2>10, <3>3, BoundAt
      <3>5. \A f \in Fields : ~Alive(field[obj[c]][f])
        BY <1>1, <3>2, <3>4, AtClear
      <3>6. proc[q].of = obj[c] => \E f \in Fields : field[obj[c]][f] = q
        BY <2>10, <2>12 DEF Kept
      <3> QED
        BY <2>10, <2>12, <3>5, <3>6
    <2> QED
      BY <2>13, <2>14
  <1> QED
    BY <1>4, <1>5 DEF Ended

-----------------------------------------------------------------------------
(* What a failure handler relies on. *)

(* A step of another call disturbs it, or it keeps what it relies on. *)
LEMMA HandlerOther ==
    ASSUME TypeOK, Form, Bound, Owned, Overlaps, Handler, Grown,
           NEW c \in Calls, Step(c) \/ AwaitRaises(c), NEW d \in Calls \ {c}, Undisturbed(d)'
    PROVE  /\ "serve" \in Ops(d)' /\ NoneOf(d, Clearing \cup {"unserve"})' => ~serving'
           /\ {"open", "connect"} \subseteq Ops(d)' /\ AllSpawned(d)' =>
                  \E p \in Pids : proc'[p] = [runs |-> "chrome", of |-> obj'[d]]
           /\ "open" \in Ops(d)' /\ "connect" \notin Ops(d)' => Alive(context[obj[d]])'
  <1>1. Well(c) /\ Moved(c) /\ (Same \/ Found(c)) /\ Live(c)
    BY Moves, SameOrFound DEF Moved
  <1>2. overlapped \subseteq overlapped' /\ excused \subseteq excused'
    BY Touches DEF Grown
  <1>3. /\ Left(d)' = Left(d) /\ Ops(d)' = Ops(d) /\ obj'[d] = obj[d]
    BY <1>1, Elsewhere
  <1>4. Undisturbed(d) /\ "requeue" \in Ops(d) /\ d \notin excused' /\ obj[d] \notin overlapped
    BY <1>2, <1>3 DEF Undisturbed
  <1>5. d \in Handlers(c)
    BY <1>4, HasOps DEF Handlers
  <1>6. ASSUME "serve" \in Ops(d), NoneOf(d, Clearing \cup {"unserve"}) PROVE ~serving'
    <2>1. ~serving
      BY <1>4, <1>6 DEF Handler
    <2>2. CASE StartBridge(c)
      <3>1. /\ Op(c) = "serve"
            /\ excused' = excused \cup {e \in Handlers(c) : Has(e, {"serve"}) /\ obj[e] # obj[c]}
        BY <2>2 DEF StartBridge, Runs
      <3>2. Has(d, {"serve"})
        BY <1>6, HasOps
      <3>3. obj[d] = obj[c]
        BY <1>4, <1>5, <3>1, <3>2
      <3>4. obj[c] \in Objects
        <4>1. Rank(Op(c)) < 20
          BY <3>1, RankTable
        <4> QED
          BY <1>1, <4>1, BoundAt
      <3>5. ASSUME NEW e \in Calls, "serve" \in Ops(e) PROVE "spawn" \in Ops(e)
        <4>1. "open" \in Ops(e) /\ ~AllSpawned(e)
          BY <3>5, RankTable DEF Form, Shape
        <4> QED
          BY <4>1 DEF AllSpawned, Ops, Names
      <3>6. "spawn" \in Ops(c) /\ "spawn" \in Ops(d)
        BY <1>1, <1>6, <3>1, <3>5, OpLowest
      <3>7. ~NoneOf(d, {"spawn", "close", "end", "clear", "stopped"})
        BY <3>6 DEF NoneOf
      <3> QED
        BY <1>4, <3>3, <3>4, <3>6, <3>7, Meets
    <2>3. CASE StopBridge(c)
      BY <2>3 DEF StopBridge
    <2> QED
      BY <2>1, <2>2, <2>3, Touches
  <1>7. ASSUME NEW p \in Pids, proc[p] = [runs |-> "chrome", of |-> obj[d]]
        PROVE  proc'[p] = [runs |-> "chrome", of |-> obj[d]]
    <2>1. Alive(p) /\ proc[p].of = obj[d]
      <3>1. proc[p].runs = "chrome" /\ proc[p].of = obj[d]
        BY <1>7
      <3> QED
        BY <3>1, NoneAssumption DEF Alive
    <2>2. CASE EndProcess(c)
      <3>1. /\ <<"end", Arg(c)>> \in Left(c)
            /\ excused' = excused \cup {e \in Handlers(c) : obj[e] = obj[c] \/ context[obj[e]] = Arg(c)}
            /\ proc'[p] = IF p = Arg(c) THEN Nothing ELSE proc[p]
        BY <2>2, EndSteps
      <3>2. p # Arg(c)
        <4> SUFFICES ASSUME p = Arg(c) PROVE FALSE
          OBVIOUS
        <4> DEFINE a == <<"end", Arg(c)>>
        <4>0. a \in Left(c) /\ a[1] = "end" /\ a[2] = p
          BY <3>1
        <4> HIDE DEF a
        <4>1. proc[p].of = obj[c]
          BY <2>1, <4>0 DEF Owned
        <4> QED
          BY <1>4, <1>5, <2>1, <3>1, <4>1
      <3> QED
        BY <1>7, <3>1, <3>2
    <2>3. CASE Spawn(c)
      <3>1. PICK r \in Pids, g \in Fields :
                /\ ~Known(r)
                /\ proc' = [proc EXCEPT ![r] = [runs |-> IF g = "chrome" THEN "chrome" ELSE "desktop",
                                                of |-> obj[c]]]
        BY <2>3, SpawnSteps
      <3>2. p # r
        BY <2>1, <3>1, Fresh
      <3> QED
        BY <1>7, <3>1, <3>2 DEF TypeOK
    <2> QED
      BY <1>7, <2>2, <2>3, Touches
  <1>8. ASSUME {"open", "connect"} \subseteq Ops(d), AllSpawned(d)
        PROVE  \E p \in Pids : proc'[p] = [runs |-> "chrome", of |-> obj[d]]
    BY <1>4, <1>7, <1>8 DEF Handler
  <1>9. ASSUME "open" \in Ops(d), "connect" \notin Ops(d) PROVE Alive(context[obj[d]])'
    <2>1. Alive(context[obj[d]])
      BY <1>4, <1>9 DEF Handler
    <2>2. ASSUME context'[obj[d]] = context[obj[d]], proc'[context[obj[d]]].runs # "none"
          PROVE  Alive(context[obj[d]])'
      BY <1>3, <2>1, <2>2 DEF Alive
    <2>3. CASE CloseContext(c)
      <3>1. /\ context' = [context EXCEPT ![obj[c]] = None] /\ proc' = proc
            /\ excused' = excused \cup {e \in Handlers(c) : obj[e] = obj[c]}
        BY <2>3 DEF CloseContext
      <3>2. obj[d] # obj[c]
        BY <1>4, <1>5, <3>1
      <3>3. context'[obj[d]] = context[obj[d]]
        BY <3>1, <3>2 DEF TypeOK
      <3> QED
        BY <2>1, <2>2, <3>1, <3>3 DEF Alive
    <2>4. CASE Connect(c)
      <3>1. /\ proc' = proc /\ Op(c) = "connect"
            /\ \/ context' = context
               \/ \E p \in Pids : proc[p].runs = "chrome" /\ context' = [context EXCEPT ![obj[c]] = p]
        BY <2>4 DEF Connect, Runs
      <3>2. CASE context' = context
        BY <2>1, <2>2, <3>1, <3>2 DEF Alive
      <3>3. ASSUME NEW p \in Pids, proc[p].runs = "chrome", context' = [context EXCEPT ![obj[c]] = p]
            PROVE  Alive(context[obj[d]])'
        <4>1. obj[c] \in Objects
          <5>1. Rank(Op(c)) < 20
            BY <3>1, RankTable
          <5> QED
            BY <1>1, <5>1, BoundAt
        <4>2. CASE obj[d] = obj[c]
          <5>1. context'[obj[d]] = p /\ p # None
            BY <3>3, <4>1, <4>2, NoneAssumption DEF TypeOK
          <5> QED
            BY <1>3, <3>1, <3>3, <5>1 DEF Alive
        <4>3. CASE obj[d] # obj[c]
          <5>1. context'[obj[d]] = context[obj[d]]
            BY <3>3, <4>3 DEF TypeOK
          <5> QED
            BY <2>1, <2>2, <3>1, <5>1 DEF Alive
        <4> QED
          BY <4>2, <4>3
      <3> QED
        BY <3>1, <3>2, <3>3
    <2>5. CASE EndProcess(c)
      <3>1. /\ excused' = excused \cup {e \in Handlers(c) : obj[e] = obj[c] \/ context[obj[e]] = Arg(c)}
            /\ proc' = [proc EXCEPT ![Arg(c)] = Nothing] /\ context' = context
        BY <2>5, EndSteps
      <3>2. context[obj[d]] # Arg(c)
        BY <1>4, <1>5, <3>1
      <3>3. proc'[context[obj[d]]] = proc[context[obj[d]]]
        BY <3>1, <3>2 DEF TypeOK
      <3> QED
        BY <2>1, <2>2, <3>1, <3>3 DEF Alive
    <2>6. CASE Spawn(c)
      <3>1. PICK r \in Pids, g \in Fields :
                /\ ~Known(r) /\ context' = context
                /\ proc' = [proc EXCEPT ![r] = [runs |-> IF g = "chrome" THEN "chrome" ELSE "desktop",
                                                of |-> obj[c]]]
        BY <2>6, SpawnSteps
      <3>2. context[obj[d]] # r
        BY <2>1, <3>1, Fresh
      <3>3. proc'[context[obj[d]]] = proc[context[obj[d]]]
        BY <3>1, <3>2 DEF TypeOK
      <3> QED
        BY <2>1, <2>2, <3>1, <3>3 DEF Alive
    <2>7. CASE proc' = proc /\ context' = context
      BY <2>1, <2>2, <2>7 DEF Alive
    <2> QED
      BY <2>3, <2>4, <2>5, <2>6, <2>7, Touches
  <1>10. AllSpawned(d)' <=> AllSpawned(d)
    BY <1>3 DEF AllSpawned
  <1>11. NoneOf(d, Clearing \cup {"unserve"})' <=> NoneOf(d, Clearing \cup {"unserve"})
    BY <1>3 DEF NoneOf
  <1> QED
    BY <1>3, <1>6, <1>8, <1>9, <1>10, <1>11

(* The handler's own step gives it what it relies on next. *)
LEMMA HandlerOwn ==
    ASSUME TypeOK, Form, Bound, Handler, Grown,
           NEW c \in Calls, Step(c) \/ AwaitRaises(c), Undisturbed(c)'
    PROVE  /\ "serve" \in Ops(c)' /\ NoneOf(c, Clearing \cup {"unserve"})' => ~serving'
           /\ {"open", "connect"} \subseteq Ops(c)' /\ AllSpawned(c)' =>
                  \E p \in Pids : proc'[p] = [runs |-> "chrome", of |-> obj'[c]]
           /\ "open" \in Ops(c)' /\ "connect" \notin Ops(c)' => Alive(context[obj[c]])'
  <1>1. Well(c) /\ Moved(c) /\ (Same \/ Found(c)) /\ Live(c)
    BY Moves, SameOrFound DEF Moved
  <1>2. overlapped \subseteq overlapped' /\ excused \subseteq excused'
    BY Touches DEF Grown
  <1>3. CASE Fallen(c)
    <2>1. \/ Ops(c)' = {"pause", "soft"} \cup {n \in Ops(c) : Rank(n) > Rank("tried")}
          \/ /\ Ops(c)' = {"terminate", "spawn", "connect", "open", "ready"}
                          \cup {n \in Ops(c) : Rank(n) > Rank("tried")}
             /\ ~AllSpawned(c)'
          \/ Ops(c)' \in {{"broken"}, {"failed", "recover", "requeue"}, {}}
      BY <1>3, FallenOps, FieldTypes DEF AllSpawned
    <2>2. Rank("tried") = 16 /\ Rank("serve") = 9 /\ Rank("open") = 15 /\ Rank("connect") = 13
      BY RankTable
    <2>3. "serve" \notin Ops(c)'
      BY <2>1, <2>2
    <2>4. "open" \in Ops(c)' => "connect" \in Ops(c)' /\ ~AllSpawned(c)'
      BY <2>1, <2>2
    <2> QED
      BY <2>3, <2>4
  <1>4. ASSUME ~Fallen(c), NEW N, Pushed(c, N)
        PROVE  /\ "serve" \in Ops(c)' /\ NoneOf(c, Clearing \cup {"unserve"})' => ~serving'
               /\ {"open", "connect"} \subseteq Ops(c)' /\ AllSpawned(c)' =>
                      \E p \in Pids : proc'[p] = [runs |-> "chrome", of |-> obj'[c]]
               /\ "open" \in Ops(c)' /\ "connect" \notin Ops(c)' => Alive(context[obj[c]])'
    <2>1. /\ Ops(c)' = N \cup Names(Rest(c)) /\ (N # {} => Pushes(Op(c), N)) /\ "requeue" \notin N
          /\ N = {} => Op(c) \notin {"terminate", "list", "stop"}
          /\ \A n \in Names(Rest(c)) : Rank(n) <= 20 => Same
          /\ Rest(c) \subseteq Left(c)'
      BY <1>1, <1>4, PushedOps DEF Pushed, Pushes
    <2>2. "requeue" \in Ops(c)
      BY <1>1, <2>1, OpLowest DEF Undisturbed
    <2>3. Same => Undisturbed(c) /\ obj'[c] = obj[c]
      BY <1>2, <2>2 DEF Undisturbed, Same
    <2>4. ASSUME "open" \in Ops(c)', "connect" \notin N
          PROVE  "open" \in Names(Rest(c)) /\ "open" \in Ops(c) /\ Same /\ Rank(Op(c)) <= 15
      <3>1. "open" \notin N
        BY <2>1, <2>4 DEF Pushes
      <3> QED
        BY <1>1, <2>1, <2>4, <3>1, OpLowest, RankTable
    <2>5. \A n \in Ops(c) : Rank(Op(c)) <= Rank(n)
      BY <1>1, OpLowest
    <2>6. Step(c)
      BY <1>4, Acts
    <2>7. ASSUME "serve" \in Ops(c)', NoneOf(c, Clearing \cup {"unserve"})' PROVE ~serving'
      <3>1. "serve" \notin N
        <4>1. "terminate" \notin N
          BY <2>1, <2>7 DEF NoneOf, Clearing
        <4> QED
          BY <2>1, <4>1 DEF Pushes
      <3>2. "serve" \in Names(Rest(c)) /\ "serve" \in Ops(c) /\ Same
        BY <1>1, <2>1, <2>7, <3>1, OpLowest, RankTable
      <3>3. Op(c) # "serve"
        <4> SUFFICES ASSUME Op(c) = "serve" PROVE FALSE
          OBVIOUS
        <4>1. Rank("serve") < Rank("serve")
          BY <1>1, <3>2, OpLowest
        <4> QED
          BY <4>1, RankTable
      <3>4. CASE Op(c) = "unserve"
        <4>1. StopBridge(c)
          BY <1>4, <3>4, Acts
        <4> QED
          BY <4>1 DEF StopBridge
      <3>5. CASE Op(c) # "unserve"
        <4>1. "unserve" \notin Ops(c)
          BY <1>1, <2>1, <2>7, <3>5, OpLowest DEF NoneOf
        <4>2. NoneOf(c, Clearing \cup {"unserve"})
          BY <3>2, <4>1 DEF Form, Shape, NoneOf, Without
        <4>3. ~serving
          BY <2>3, <3>2, <4>2 DEF Handler
        <4>4. ~StartBridge(c)
          BY <3>3 DEF StartBridge, Runs
        <4>5. StopBridge(c) \/ serving' = serving
          BY <4>4, Touches
        <4> QED
          BY <4>3, <4>5 DEF StopBridge
      <3> QED
        BY <3>4, <3>5
    <2>8. ASSUME {"open", "connect"} \subseteq Ops(c)', AllSpawned(c)'
          PROVE  \E p \in Pids : proc'[p] = [runs |-> "chrome", of |-> obj'[c]]
      <3>1. "connect" \notin N
        <4> SUFFICES ASSUME "connect" \in N PROVE FALSE
          OBVIOUS
        <4>1. "spawn" \notin N
          BY <1>4, <2>8, FieldTypes DEF Pushed, Adds, AllSpawned
        <4>2. Op(c) \in {"start", "soft"} /\ "open" \notin N
          BY <2>1, <4>1 DEF Pushes
        <4>3. "open" \in Names(Rest(c)) /\ "open" \in Ops(c) /\ Op(c) \in Ops(c)
          BY <1>1, <2>1, <2>8, <4>2, OpLowest
        <4>4. Op(c) # "soft"
          BY <4>3 DEF Form, Shape, Without
        <4>5. Op(c) # "start"
          BY <2>5, <4>3, RankTable
        <4> QED
          BY <4>2, <4>4, <4>5
      <3>2. "open" \in Ops(c) /\ Same /\ "connect" \in Ops(c)
        BY <1>1, <2>1, <2>4, <2>8, <3>1, OpLowest
      <3>3. CASE AllSpawned(c)
        <4>1. PICK p \in Pids : proc[p] = [runs |-> "chrome", of |-> obj[c]]
          BY <2>3, <3>2, <3>3 DEF Handler
        <4>2. \A n \in Ops(c) : Rank(n) >= Rank("spawn")
          BY <3>2, <3>3 DEF Form, Shape
        <4>3. ~EndProcess(c)
          <5> SUFFICES ASSUME Op(c) = "end" PROVE FALSE
            BY DEF EndProcess, Runs
          <5>1. "end" \in Ops(c)
            BY <1>1, OpLowest
          <5> QED
            BY <4>2, <5>1, RankTable
        <4>4. Alive(p)
          <5>1. proc[p].runs = "chrome"
            BY <4>1
          <5> QED
            BY <5>1, NoneAssumption DEF Alive
        <4>5. CASE Spawn(c)
          <5>1. PICK r \in Pids, g \in Fields :
                    /\ ~Known(r)
                    /\ proc' = [proc EXCEPT ![r] = [runs |-> IF g = "chrome" THEN "chrome" ELSE "desktop",
                                                    of |-> obj[c]]]
            BY <4>5, SpawnSteps
          <5>2. p # r
            BY <4>4, <5>1, Fresh
          <5>3. proc'[p] = proc[p]
            BY <5>1, <5>2 DEF TypeOK
          <5> QED
            BY <2>3, <3>2, <4>1, <5>3
        <4>6. CASE proc' = proc
          BY <2>3, <3>2, <4>1, <4>6
        <4> QED
          BY <4>3, <4>5, <4>6, Touches
      <3>4. CASE ~AllSpawned(c)
        <4>1. <<"spawn", "chrome">> \in Left(c) /\ <<"spawn", "chrome">> \notin Rest(c)
          BY <2>1, <2>8, <3>4 DEF AllSpawned
        <4>2. Head(todo[c]) = <<"spawn", "chrome">>
          BY <1>1, <4>1, Unfold
        <4>3. Op(c) = "spawn" /\ Arg(c) = "chrome"
          BY <4>2 DEF Op, Arg
        <4>4. Spawn(c)
          BY <1>4, <4>3, Acts
        <4>5. PICK r \in Pids, g \in Fields :
                  /\ Arg(c) = g
                  /\ proc' = [proc EXCEPT ![r] = [runs |-> IF g = "chrome" THEN "chrome" ELSE "desktop",
                                                  of |-> obj[c]]]
          BY <4>4, SpawnSteps
        <4>6. proc'[r] = [runs |-> "chrome", of |-> obj[c]]
          BY <4>3, <4>5 DEF TypeOK
        <4> QED
          BY <2>3, <3>2, <4>6
      <3> QED
        BY <3>3, <3>4
    <2>9. ASSUME "open" \in Ops(c)', "connect" \notin Ops(c)' PROVE Alive(context[obj[c]])'
      <3>1. "connect" \notin N /\ "connect" \notin Names(Rest(c))
        BY <2>1, <2>9
      <3>2. "open" \in Ops(c) /\ Same /\ Rank(Op(c)) <= 15 /\ Undisturbed(c) /\ obj'[c] = obj[c]
        BY <2>3, <2>4, <2>9, <3>1
      <3>3. CASE "connect" \notin Ops(c)
        <4>1. Alive(context[obj[c]])
          BY <3>2, <3>3 DEF Handler
        <4>2. \A n \in Ops(c) : Rank(n) >= Rank("connect")
          BY <3>2, <3>3 DEF Form, Shape
        <4>3. Op(c) \in Ops(c) /\ Rank(Op(c)) >= 13
          BY <1>1, <4>2, OpLowest, RankTable
        <4>4. Op(c) \notin {"close", "end", "connect", "spawn"}
          BY <3>3, <4>3, RankTable
        <4>5. ~CloseContext(c) /\ ~EndProcess(c) /\ ~Connect(c) /\ ~Spawn(c)
          BY <4>4 DEF CloseContext, EndProcess, Connect, Spawn, Runs
        <4>6. context' = context /\ proc' = proc
          BY <4>5, Touches
        <4> QED
          BY <3>2, <4>1, <4>6 DEF Alive
      <3>4. CASE "connect" \in Ops(c)
        <4>1. Op(c) = "connect"
          BY <1>1, <3>1, <3>4, OpLowest
        <4>2. Connect(c)
          BY <1>4, <4>1, Acts
        <4>3. proc' = proc
          BY <4>2 DEF Connect, accountVars
        <4>4. PICK p \in Pids : proc[p].runs = "chrome" /\ context' = [context EXCEPT ![obj[c]] = p]
          <5>1. ~Raise(c)
            BY <1>1, <1>4, <3>2, Raises DEF Fallen
          <5> QED
            BY <4>2, <5>1 DEF Connect
        <4>5. obj[c] \in Objects
          <5>1. Rank(Op(c)) < 20
            BY <4>1, RankTable
          <5> QED
            BY <1>1, <5>1, BoundAt
        <4>6. context'[obj[c]] = p /\ p # None
          BY <4>4, <4>5, NoneAssumption DEF TypeOK
        <4> QED
          BY <3>2, <4>3, <4>4, <4>6 DEF Alive
      <3> QED
        BY <3>3, <3>4
    <2> QED
      BY <2>7, <2>8, <2>9
  <1> QED
    BY <1>1, <1>3, <1>4, MovedOps

LEMMA HandlerStep ==
    ASSUME TypeOK, Form, Bound, Owned, Overlaps, Handler, Grown,
           NEW c \in Calls, Step(c) \/ AwaitRaises(c)
    PROVE  Handler'
  BY HandlerOther, HandlerOwn DEF Handler

-----------------------------------------------------------------------------
(* The invariant is preserved. *)

LEMMA OverlapsGrown ==
    ASSUME Grown PROVE Overlaps'
  BY DEF Grown, Overlaps

LEMMA CallStep ==
    ASSUME IInv, Grown, NEW c \in Calls,
           (Step(c) /\ UNCHANGED <<begun, failures>>) \/ AwaitRaises(c)
    PROVE  IInv'
  <1> USE DEF IInv
  <1>1. Step(c) \/ AwaitRaises(c)
    OBVIOUS
  <1>2. Well(c) /\ Moved(c)
    BY <1>1, Moves
  <1>3. TypeOK'
    <2>1. DataType'
      BY <1>1, DataStep
    <2>2. todo' \in [Calls -> Seq(Steps)]
      BY <1>2 DEF Well
    <2>3. stranded' \subseteq Calls
      BY <1>2, StrandedType DEF TypeOK
    <2>4. overlapped' \subseteq Objects
      BY DEF Grown, TypeOK
    <2>5. begun' \in 0..MaxBegun /\ failures' \in 0..MaxFailures
      <3>1. failures \in 0..MaxFailures /\ begun \in 0..MaxBegun
        BY DEF TypeOK
      <3>2. /\ begun' = begun
            /\ failures' = failures \/ (failures < MaxFailures /\ failures' = failures + 1)
        BY DEF AwaitRaises, Fails
      <3> QED
        BY <3>1, <3>2, BoundsAssumption
    <2> QED
      BY <2>1, <2>2, <2>3, <2>4, <2>5 DEF TypeOK, DataType
  <1>4. Form'
    BY <1>2, FormMoved
  <1>5. OneRuns'
    BY <1>1, <1>2, Turn, OneRunsMoved DEF Well, Stays
  <1>6. Bound' /\ NoGhosts' /\ Gone'
    BY <1>1, BoundStep, NoGhostsStep, GoneStep
  <1>7. Stranded'
    BY <1>1, StrandedStep
  <1>8. Overlaps' /\ Owned' /\ Kept' /\ Free'
    BY <1>1, OverlapsGrown, OwnedStep, KeptStep, FreeStep
  <1>9. Listed' /\ Ended' /\ Relaunch' /\ Handler'
    BY <1>1, ListedStep, EndedStep, RelaunchStep, HandlerStep
  <1> QED
    BY <1>3, <1>4, <1>5, <1>6, <1>7, <1>8, <1>9

LEMMA ProgramNames ==
    \A N \in Programs : /\ \A n \in N : Rank(n) > 20
                        /\ Without(N, Clearing \cup {"booted", "requeue", "stopped", "spawn"})
                        /\ "remove" \in N => "stop" \in N
  <1>1. /\ Rank("stop") = 21 /\ Rank("start") = 22 /\ Rank("assigned") = 23 /\ Rank("ensure") = 24
        /\ Rank("started") = 25 /\ Rank("work") = 26 /\ Rank("recover") = 28 /\ Rank("finished") = 30
        /\ Rank("proxy") = 33 /\ Rank("settings") = 34 /\ Rank("install") = 35 /\ Rank("remove") = 36
    BY RankTable
  <1>2. \A N \in Programs : \A n \in N : n \in {"stop", "start", "assigned", "ensure", "started", "work",
            "recover", "finished", "proxy", "settings", "install", "remove"}
    BY DEF Programs
  <1>3. \A N \in Programs : \A n \in N : Rank(n) > 20
    BY <1>1, <1>2
  <1>4. \A N \in Programs : Without(N, Clearing \cup {"booted", "requeue", "stopped", "spawn"})
    BY <1>2 DEF Without, Clearing
  <1>5. \A N \in Programs : "remove" \in N => "stop" \in N
    BY DEF Programs
  <1> QED
    BY <1>3, <1>4, <1>5

(* A call begins, or the account is created anew as the object o. *)
LEMMA BeginStep ==
    ASSUME IInv, Grown, NEW c \in Calls, Begin(c) \/ CreateAccount(c)
    PROVE  IInv'
  <1> USE DEF IInv
  <1>1. Begins(c)
    BY BeginGoes
  <1>2. \A d \in Calls \ {c} : obj'[d] = obj[d]
    BY DEF Begin, CreateAccount, TypeOK
  <1>3. \A d \in Calls \ {c} : /\ todo'[d] = todo[d] /\ Left(d)' = Left(d) /\ Ops(d)' = Ops(d)
                               /\ Op(d)' = Op(d) /\ Suspended(d)
    BY <1>1 DEF Begins, Well, Stays, Left, Ops, Op
  <1>4. /\ \A n \in Ops(c)' : Rank(n) > 20
        /\ \A n \in Clearing \cup {"booted", "requeue", "stopped", "spawn"} : n \notin Ops(c)'
        /\ "remove" \in Ops(c)' => "stop" \in Ops(c)'
        /\ \A a \in Left(c)' : a[1] \notin {"kill", "end", "spawn"}
    BY <1>1, ProgramNames DEF Begins, Without
  <1>5. overlapped \subseteq overlapped' /\ late' = late /\ proc' = proc /\ serving' = serving
        /\ excused' = excused \ {c} /\ stranded' = stranded \ {c} /\ failures' = failures
    BY DEF Grown, Begin, CreateAccount, accountVars, runtimeVars
  <1>6. \/ /\ UNCHANGED <<accountVars, runtimeVars>> /\ current # None
           /\ obj' = [obj EXCEPT ![c] = current]
        \/ \E o \in Objects :
              /\ current = None /\ current' = o /\ file' = o /\ obj' = obj
              /\ \A d \in Calls : Live(d) => obj[d] # o
              /\ status' = [status EXCEPT ![o] = "READY"] /\ jobs' = [jobs EXCEPT ![o] = 0]
              /\ pid' = [pid EXCEPT ![o] = None] /\ context' = [context EXCEPT ![o] = None]
              /\ field' = [field EXCEPT ![o] = [f \in Fields |-> None]]
    BY DEF Begin, CreateAccount, Save, SetStatus
  <1>7. \A o \in Objects : field'[o] = field[o] \/ field'[o] = [f \in Fields |-> None]
    BY <1>6 DEF TypeOK, runtimeVars
  <1>8. TypeOK'
    <2>1. DataType'
      <3>1. DataType
        BY DEF TypeOK, DataType
      <3>2. CASE /\ UNCHANGED <<accountVars, runtimeVars>>
                 /\ obj' = [obj EXCEPT ![c] = current]
        BY <1>5, <3>1, <3>2 DEF DataType, accountVars, runtimeVars
      <3>3. ASSUME NEW o \in Objects, current' = o, file' = o, obj' = obj,
                   status' = [status EXCEPT ![o] = "READY"], jobs' = [jobs EXCEPT ![o] = 0],
                   pid' = [pid EXCEPT ![o] = None], context' = [context EXCEPT ![o] = None],
                   field' = [field EXCEPT ![o] = [f \in Fields |-> None]]
            PROVE  DataType'
        BY <1>5, <3>1, <3>3 DEF DataType, Statuses
      <3> QED
        BY <1>6, <3>2, <3>3
    <2>2. todo' \in [Calls -> Seq(Steps)]
      BY <1>1 DEF Begins, Well
    <2>3. stranded' \subseteq Calls /\ failures' \in 0..MaxFailures
      BY <1>5 DEF TypeOK
    <2>4. overlapped' \subseteq Objects
      BY DEF Grown, TypeOK
    <2>5. begun' \in 0..MaxBegun
      <3>1. begun \in 0..MaxBegun /\ begun < MaxBegun /\ begun' = begun + 1
        BY DEF TypeOK, Begin, CreateAccount, MayBegin
      <3> QED
        BY <3>1, BoundsAssumption
    <2> QED
      BY <2>1, <2>2, <2>3, <2>4, <2>5 DEF TypeOK, DataType
  <1>9. Form'
    BY <1>1, FormBegins
  <1>10. OneRuns'
    BY <1>3, OneRunsMoved
  <1>11. Bound'
    <2>1. ~Works(c)'
      <3>1. Live(c)' => Op(c)' \in Ops(c)'
        BY <1>1, HeadOps DEF Begins, Well
      <3>2. Rank("others") = 20
        BY RankTable
      <3>3. Live(c)' => ~(Rank(Op(c)') < 20)
        BY <1>4, <3>1, RankType
      <3> QED
        BY <1>4, <3>2, <3>3 DEF Works
    <2>2. ASSUME NEW d \in Calls \ {c}, Works(d)'
          PROVE  obj'[d] \in Objects /\ (obj'[d] = current' \/ obj'[d] \in late')
      <3>1. Works(d)
        BY <1>3, <2>2 DEF Works, Live
      <3>2. obj[d] \in Objects /\ (obj[d] = current \/ obj[d] \in late) /\ obj[d] # None
        BY <3>1, NoneAssumption DEF Bound
      <3>3. current' = current \/ current = None
        BY <1>6 DEF accountVars
      <3> QED
        BY <1>2, <1>5, <2>2, <3>2, <3>3
    <2> QED
      BY <2>1, <2>2 DEF Bound
  <1>12. NoGhosts'
    BY <1>5, <1>6 DEF NoGhosts, accountVars
  <1>13. Gone'
    BY <1>6, NoneAssumption DEF Gone, accountVars
  <1>14. Stranded'
    <2> SUFFICES ASSUME NEW d \in stranded \ {c}
                 PROVE  todo'[d] = <<>> /\ (d \in excused' \/ obj'[d] \in overlapped')
      BY <1>5 DEF Stranded
    <2>1. d \in Calls \ {c} /\ todo[d] = <<>> /\ (d \in excused \/ obj[d] \in overlapped)
      BY DEF Stranded, TypeOK
    <2> QED
      BY <1>2, <1>3, <1>5, <2>1
  <1>15. Overlaps'
    BY OverlapsGrown
  <1>16. Owned'
    <2>1. \A p : Alive(p)' <=> Alive(p)
      BY <1>5 DEF Alive
    <2>2. \A p \in Pids : Alive(p)' => proc'[p].of \in Objects
      BY <1>5, <2>1 DEF Owned
    <2>3. \A o \in Objects, f \in Fields : Alive(field[o][f])' => proc'[field'[o][f]].of = o
      BY <1>5, <1>7 DEF Owned, Alive
    <2>4. \A d \in Calls : \A a \in Left(d)' :
              a[1] \in {"kill", "end"} /\ Alive(a[2])' => proc'[a[2]].of = obj'[d]
      BY <1>2, <1>3, <1>4, <1>5, <2>1 DEF Owned
    <2> QED
      BY <2>2, <2>3, <2>4 DEF Owned
  <1>17. Kept'
    <2> SUFFICES ASSUME NEW p \in Pids, Alive(p)
                 PROVE  \/ proc[p].of \in overlapped' \cup late'
                        \/ proc[p].of = current' /\ \E f \in Fields : field'[current'][f] = p
      BY <1>5 DEF Kept, Alive
    <2>1. \/ proc[p].of \in overlapped \cup late
          \/ proc[p].of = current /\ \E f \in Fields : field[current][f] = p
      BY DEF Kept
    <2>2. proc[p].of # None
      BY NoneAssumption DEF Owned
    <2> QED
      BY <1>5, <1>6, <2>1, <2>2 DEF accountVars, runtimeVars
  <1>18. Free'
    <2>1. ASSUME NEW d \in Calls, NoneOf(d, Clearing)', obj'[d] \in Objects \ overlapped',
                 NEW f \in Fields, <<"spawn", f>> \in Left(d)'
          PROVE  field'[obj'[d]][f] = None
      <3>1. d # c
        <4>1. <<"spawn", f>>[1] = "spawn"
          OBVIOUS
        <4> QED
          BY <1>4, <2>1, <4>1
      <3>2. field[obj[d]][f] = None /\ obj'[d] = obj[d]
        BY <1>2, <1>3, <1>5, <2>1, <3>1 DEF Free, NoneOf
      <3> QED
        BY <1>7, <2>1, <3>2
    <2> QED
      BY <2>1 DEF Free
  <1>19. Listed'
    <2>1. ASSUME NEW d \in Calls, "clear" \in Ops(d)', NoneOf(d, {"terminate", "close", "list"})',
                 obj'[d] \in Objects \ overlapped', NEW f \in Fields, Alive(field[obj[d]][f])'
          PROVE  \/ <<"kill", field'[obj'[d]][f]>> \in Left(d)'
                 \/ <<"end", field'[obj'[d]][f]>> \in Left(d)'
      <3>1. d # c
        BY <1>4, <2>1 DEF Clearing
      <3>2. /\ obj'[d] = obj[d] /\ obj[d] \in Objects \ overlapped /\ "clear" \in Ops(d)
            /\ Left(d)' = Left(d) /\ NoneOf(d, {"terminate", "close", "list"})
        BY <1>2, <1>3, <1>5, <2>1, <3>1 DEF NoneOf
      <3>3. field'[obj[d]] = field[obj[d]]
        BY <1>7, <2>1, <3>2 DEF Alive
      <3>4. Alive(field[obj[d]][f])
        BY <1>5, <2>1, <3>2, <3>3 DEF Alive
      <3> QED
        BY <3>2, <3>3, <3>4 DEF Listed
    <2> QED
      BY <2>1 DEF Listed
  <1>20. Ended'
    <2>1. ASSUME NEW d \in Calls, ~NoneOf(d, {"stopped", "remove"})',
                 NoneOf(d, Clearing \cup {"stop"})', obj'[d] \notin overlapped' \cup late'
          PROVE  \A p \in Pids : Alive(p)' => proc'[p].of # obj'[d]
      <3>1. d # c
        BY <1>4, <2>1 DEF NoneOf
      <3>2. /\ obj'[d] = obj[d] /\ obj[d] \notin overlapped \cup late
            /\ ~NoneOf(d, {"stopped", "remove"}) /\ NoneOf(d, Clearing \cup {"stop"})
        BY <1>2, <1>3, <1>5, <2>1, <3>1 DEF NoneOf
      <3> QED
        BY <1>5, <3>2 DEF Ended, Alive
    <2> QED
      BY <2>1 DEF Ended
  <1>21. Relaunch'
    <2>1. ASSUME NEW d \in Calls, "requeue" \in Ops(d)'
          PROVE  d # c /\ Ops(d)' = Ops(d)
      BY <1>3, <1>4, <2>1
    <2>2. ASSUME NEW d \in Calls, {"requeue", "start"} \subseteq Ops(d)' PROVE FALSE
      <3>1. d # c /\ {"requeue", "start"} \subseteq Ops(d)
        BY <2>1, <2>2
      <3>2. Live(d) /\ Op(d) = "start" /\ Suspended(d)
        BY <1>3, <3>1, HasOps DEF Relaunch
      <3> QED
        BY <3>2 DEF Suspended, Awaits
    <2>3. ASSUME NEW d \in Calls, "requeue" \in Ops(d)', "connect" \in Ops(d)'
          PROVE  ~NoneOf(d, {"open", "tried"})'
      BY <2>1, <2>3 DEF Relaunch, NoneOf
    <2> QED
      BY <2>2, <2>3 DEF Relaunch
  <1>22. Handler'
    <2>1. ASSUME NEW d \in Calls, Undisturbed(d)'
          PROVE  /\ d # c /\ Undisturbed(d) /\ obj'[d] = obj[d] /\ Ops(d)' = Ops(d) /\ Left(d)' = Left(d)
                 /\ context'[obj[d]] = context[obj[d]]
      <3>1. d # c
        BY <1>4, <2>1 DEF Undisturbed
      <3>2. Undisturbed(d) /\ obj'[d] = obj[d] /\ Ops(d)' = Ops(d) /\ Left(d)' = Left(d)
        BY <1>2, <1>3, <1>5, <2>1, <3>1 DEF Undisturbed
      <3>3. Live(d)
        BY <3>2, HasOps DEF Undisturbed
      <3>4. context'[obj[d]] = context[obj[d]]
        <4>1. CASE UNCHANGED <<accountVars, runtimeVars>>
          BY <4>1 DEF runtimeVars
        <4>2. CASE ~UNCHANGED <<accountVars, runtimeVars>>
          <5>1. PICK o \in Objects : /\ \A e \in Calls : Live(e) => obj[e] # o
                                     /\ context' = [context EXCEPT ![o] = None]
            BY <1>6, <4>2
          <5>2. obj[d] # o
            BY <3>3, <5>1
          <5> QED
            BY <5>1, <5>2 DEF TypeOK
        <4> QED
          BY <4>1, <4>2
      <3> QED
        BY <3>1, <3>2, <3>4
    <2>2. ASSUME NEW d \in Calls, Undisturbed(d)',
                 "serve" \in Ops(d)', NoneOf(d, Clearing \cup {"unserve"})'
          PROVE  ~serving'
      BY <1>5, <2>1, <2>2 DEF Handler, NoneOf
    <2>3. ASSUME NEW d \in Calls, Undisturbed(d)', {"open", "connect"} \subseteq Ops(d)', AllSpawned(d)'
          PROVE  \E p \in Pids : proc'[p] = [runs |-> "chrome", of |-> obj'[d]]
      BY <1>5, <2>1, <2>3 DEF Handler, AllSpawned
    <2>4. ASSUME NEW d \in Calls, Undisturbed(d)', "open" \in Ops(d)', "connect" \notin Ops(d)'
          PROVE  Alive(context[obj[d]])'
      BY <1>5, <2>1, <2>4 DEF Handler, Alive
    <2> QED
      BY <2>2, <2>3, <2>4 DEF Handler
  <1> QED
    BY <1>8, <1>9, <1>10, <1>11, <1>12, <1>13, <1>14, <1>15, <1>16, <1>17, <1>18, <1>19, <1>20,
       <1>21, <1>22

(* A Chrome dies. *)
LEMMA DeathStep ==
    ASSUME IInv, Grown, NEW p \in Pids, ProcessDies(p)
    PROVE  IInv'
  <1> USE DEF IInv
  <1>1. /\ UNCHANGED <<accountVars, context, field, serving, todo, obj, begun, stranded, late>>
        /\ proc' = [proc EXCEPT ![p] = Nothing]
        /\ excused' = excused \cup {c \in Calls : Has(c, {"requeue"})}
        /\ failures < MaxFailures /\ failures' = failures + 1
        /\ overlapped \subseteq overlapped' /\ overlapped' \subseteq Objects
    BY DEF ProcessDies, Fails, Grown, TypeOK
  <1>2. \A q : Alive(q)' /\ q \in Pids => Alive(q) /\ proc'[q] = proc[q]
    BY <1>1 DEF Alive, Nothing, TypeOK
  <1>3. \A d \in Calls : /\ Left(d)' = Left(d) /\ Ops(d)' = Ops(d) /\ Op(d)' = Op(d)
                         /\ Live(d)' = Live(d) /\ Suspended(d)' = Suspended(d)
                         /\ AllSpawned(d)' = AllSpawned(d)
    BY <1>1 DEF Left, Ops, Op, Live, Suspended, AllSpawned
  <1>4. \A d \in Calls : \A names : NoneOf(d, names)' <=> NoneOf(d, names)
    BY <1>3 DEF NoneOf
  <1>5. TypeOK'
    <2>1. proc' \in [Pids -> [runs : {"none", "desktop", "chrome"}, of : Objects \cup {None}]]
      BY <1>1 DEF TypeOK, Nothing
    <2>2. failures' \in 0..MaxFailures
      BY <1>1, BoundsAssumption DEF TypeOK
    <2> QED
      BY <1>1, <2>1, <2>2 DEF TypeOK, accountVars
  <1>6. Form' /\ OneRuns'
    BY <1>1, <1>3 DEF Form, OneRuns
  <1>7. Bound' /\ NoGhosts'
    BY <1>1, <1>3 DEF Bound, Works, NoGhosts, accountVars
  <1>8. Gone'
    BY <1>1, <1>3 DEF Gone, IsJob, Has, accountVars
  <1>9. Stranded' /\ Overlaps'
    BY <1>1, OverlapsGrown DEF Stranded
  <1>10. Owned'
    <2>1. \A q \in Pids : Alive(q)' => proc'[q].of \in Objects
      BY <1>2 DEF Owned
    <2>2. ASSUME NEW o \in Objects, NEW f \in Fields, Alive(field[o][f])'
          PROVE  proc'[field'[o][f]].of = o
      <3>1. field'[o][f] = field[o][f] /\ field[o][f] \in Pids
        BY <1>1, <2>2 DEF TypeOK, Alive
      <3> QED
        BY <1>2, <2>2, <3>1 DEF Owned, Alive
    <2>3. ASSUME NEW d \in Calls, NEW a \in Left(d)', a[1] \in {"kill", "end"}, Alive(a[2])'
          PROVE  proc'[a[2]].of = obj'[d]
      <3>1. a \in Left(d) /\ obj'[d] = obj[d] /\ a[2] # None
        BY <1>1, <1>3, <2>3 DEF Alive
      <3>2. a[2] \in Pids
        BY <2>3, <3>1, HasOps, StepKinds
      <3> QED
        BY <1>2, <2>3, <3>1, <3>2 DEF Owned
    <2> QED
      BY <2>1, <2>2, <2>3 DEF Owned
  <1>11. Kept'
    <2> SUFFICES ASSUME NEW q \in Pids, Alive(q)'
                 PROVE  \/ proc'[q].of \in overlapped' \cup late'
                        \/ proc'[q].of = current' /\ \E f \in Fields : field'[current'][f] = q
      BY DEF Kept
    <2>1. Alive(q) /\ proc'[q] = proc[q]
      BY <1>2
    <2> QED
      BY <1>1, <2>1 DEF Kept, accountVars
  <1>12. Free'
    BY <1>1, <1>3, <1>4 DEF Free
  <1>13. Listed'
    <2> SUFFICES ASSUME NEW d \in Calls, "clear" \in Ops(d)', NoneOf(d, {"terminate", "close", "list"})',
                        obj'[d] \in Objects \ overlapped', NEW f \in Fields, Alive(field[obj[d]][f])'
                 PROVE  \/ <<"kill", field'[obj'[d]][f]>> \in Left(d)'
                        \/ <<"end", field'[obj'[d]][f]>> \in Left(d)'
      BY DEF Listed
    <2>1. /\ obj'[d] = obj[d] /\ obj[d] \in Objects \ overlapped /\ field'[obj'[d]][f] = field[obj[d]][f]
          /\ "clear" \in Ops(d) /\ NoneOf(d, {"terminate", "close", "list"})
      BY <1>1, <1>3, <1>4
    <2>2. field[obj[d]][f] \in Pids
      BY <1>1, <2>1 DEF TypeOK, Alive
    <2>3. Alive(field[obj[d]][f])
      BY <1>1, <1>2, <2>1, <2>2 DEF Alive
    <2> QED
      BY <1>3, <2>1, <2>3 DEF Listed
  <1>14. Ended'
    <2> SUFFICES ASSUME NEW d \in Calls, ~NoneOf(d, {"stopped", "remove"})',
                        NoneOf(d, Clearing \cup {"stop"})', obj'[d] \notin overlapped' \cup late',
                        NEW q \in Pids, Alive(q)'
                 PROVE  proc'[q].of # obj'[d]
      BY DEF Ended
    <2>1. /\ obj'[d] = obj[d] /\ obj[d] \notin overlapped \cup late
          /\ ~NoneOf(d, {"stopped", "remove"}) /\ NoneOf(d, Clearing \cup {"stop"})
      BY <1>1, <1>4
    <2> QED
      BY <1>2, <2>1 DEF Ended
  <1>15. Relaunch'
    <2>1. Running(current)' /\ current # None => Running(current)
      BY <1>1, <1>2 DEF Running, TypeOK, accountVars, Alive
    <2>2. ASSUME NEW d \in Calls, {"requeue", "start"} \subseteq Ops(d)'
          PROVE  Op(d)' = "start" /\ (current' = None \/ ~Running(current)')
      BY <1>1, <1>3, <2>1, <2>2 DEF Relaunch, accountVars
    <2>3. ASSUME NEW d \in Calls, "requeue" \in Ops(d)', "connect" \in Ops(d)'
          PROVE  ~NoneOf(d, {"open", "tried"})'
      BY <1>3, <1>4, <2>3 DEF Relaunch
    <2> QED
      BY <2>2, <2>3 DEF Relaunch
  <1>16. Handler'
    <2>1. \A d \in Calls : ~Undisturbed(d)'
      BY <1>1, <1>3, HasOps DEF Undisturbed
    <2> QED
      BY <2>1 DEF Handler
  <1> QED
    BY <1>5, <1>6, <1>7, <1>8, <1>9, <1>10, <1>11, <1>12, <1>13, <1>14, <1>15, <1>16

(* Another worker takes over: nothing runs any more. *)
LEMMA RebootStep ==
    ASSUME IInv, Reboot
    PROVE  IInv'
  <1> USE DEF IInv
  <1>1. /\ current' = file /\ file' = file /\ begun' = begun /\ serving' = FALSE
        /\ pid' = [o \in Objects |-> None] /\ jobs' = [o \in Objects |-> 0]
        /\ context' = [o \in Objects |-> None]
        /\ field' = [o \in Objects |-> [f \in Fields |-> None]]
        /\ proc' = [q \in Pids |-> Nothing]
        /\ obj' = [c \in Calls |-> file]
        /\ overlapped' = {} /\ late' = {} /\ stranded' = {} /\ excused' = {}
        /\ failures < MaxFailures /\ failures' = failures + 1
    BY DEF Reboot, Fails
  <1>2. \A q \in Pids \cup {None} : ~Alive(q)'
    BY <1>1 DEF Alive, Nothing
  <1>3. /\ todo' \in [Calls -> Seq(Steps)]
        /\ \A d \in Calls : Ops(d)' = {} \/ Ops(d)' = {"start", "booted"}
        /\ \A d \in Calls : Ops(d)' # {} => file # None
        /\ \A d \in Calls : \A a \in Left(d)' : a[1] \notin {"kill", "end", "spawn"}
        /\ \A d, e \in Calls : Ops(d)' # {} /\ Ops(e)' # {} => d = e
    BY RebootGoes
  <1>4. TypeOK'
    <2>1. status' \in [Objects -> Statuses]
      <3>1. PICK s \in Statuses : status' = IF file = None THEN status ELSE [status EXCEPT ![file] = s]
        BY DEF Reboot, Statuses
      <3> QED
        BY <3>1 DEF TypeOK
    <2>2. failures' \in 0..MaxFailures
      BY <1>1, BoundsAssumption DEF TypeOK
    <2> QED
      BY <1>1, <1>3, <2>1, <2>2 DEF TypeOK, Nothing
  <1>5. Form'
    BY FormReboot
  <1>6. OneRuns'
    <2>1. \A d \in Calls : Live(d)' => Ops(d)' # {}
      BY <1>3, HeadOps
    <2> QED
      BY <1>3, <2>1 DEF OneRuns, Suspended
  <1>7. Bound'
    <2> SUFFICES ASSUME NEW d \in Calls, Works(d)'
                 PROVE  obj'[d] \in Objects /\ obj'[d] = current'
      BY DEF Bound
    <2>1. Ops(d)' # {}
      BY <1>3, HeadOps DEF Works
    <2> QED
      BY <1>1, <1>3, <2>1 DEF TypeOK
  <1>8. NoGhosts' /\ Stranded'
    BY <1>1 DEF NoGhosts, Stranded
  <1>9. Gone'
    BY <1>3, HasOpsNext DEF Gone, IsJob
  <1>10. Overlaps'
    <2>1. \A d \in Calls : ~Has(d, {"spawn"})'
      BY <1>3, HasOpsNext
    <2> QED
      BY <2>1 DEF Overlaps, Overlap, Launches
  <1>11. Owned' /\ Kept'
    <2>1. \A o \in Objects, f \in Fields : ~Alive(field[o][f])'
      BY <1>1, <1>2 DEF Alive
    <2> QED
      BY <1>2, <1>3, <2>1 DEF Owned, Kept
  <1>12. Free'
    <2>1. \A d \in Calls : \A f : <<"spawn", f>> \notin Left(d)'
      <3>1. \A f : <<"spawn", f>>[1] = "spawn"
        OBVIOUS
      <3> QED
        BY <1>3, <3>1
    <2> QED
      BY <2>1 DEF Free
  <1>13. Listed' /\ Ended'
    BY <1>2, <1>3 DEF Listed, Ended
  <1>14. Relaunch' /\ Handler'
    BY <1>3 DEF Relaunch, Handler, Undisturbed
  <1> QED
    BY <1>4, <1>5, <1>6, <1>7, <1>8, <1>9, <1>10, <1>11, <1>12, <1>13, <1>14

(* Nothing happens. *)
LEMMA StutterStep ==
    ASSUME IInv, UNCHANGED vars
    PROVE  IInv'
  <1> USE DEF IInv, vars, accountVars, runtimeVars, callVars, history
  <1>1. \A d \in Calls : /\ Left(d)' = Left(d) /\ Ops(d)' = Ops(d) /\ Op(d)' = Op(d)
                         /\ Live(d)' = Live(d) /\ AllSpawned(d)' = AllSpawned(d)
    BY DEF Left, Ops, Op, Live, AllSpawned
  <1>2. \A d \in Calls : \A names : NoneOf(d, names)' = NoneOf(d, names) /\ Has(d, names)' = Has(d, names)
    BY <1>1 DEF NoneOf, Has
  <1>3. \A q : Alive(q)' = Alive(q)
    BY DEF Alive
  <1>4. TypeOK'
    BY DEF TypeOK
  <1>5. Form' /\ OneRuns' /\ Bound'
    BY <1>1 DEF Form, OneRuns, Suspended, Bound, Works
  <1>6. NoGhosts' /\ Gone' /\ Stranded'
    BY <1>2 DEF NoGhosts, Gone, IsJob, Stranded
  <1>7. Overlaps'
    BY <1>2 DEF Overlaps, Overlap, Launches, Ends
  <1>8. Owned'
    BY <1>1, <1>3 DEF Owned, Alive
  <1>9. Kept'
    BY <1>3 DEF Kept
  <1>10. Free'
    BY <1>1, <1>2 DEF Free
  <1>11. Listed'
    BY <1>1, <1>2, <1>3 DEF Listed, Alive
  <1>12. Ended'
    BY <1>2, <1>3 DEF Ended
  <1>13. Relaunch'
    BY <1>1, <1>2 DEF Relaunch, Running, Alive
  <1>14. Handler'
    BY <1>1, <1>2 DEF Handler, Undisturbed, Alive
  <1> QED
    BY <1>4, <1>5, <1>6, <1>7, <1>8, <1>9, <1>10, <1>11, <1>12, <1>13, <1>14

-----------------------------------------------------------------------------
(* The theorems. *)

LEMMA InitHolds == Init => IInv
  <1> SUFFICES ASSUME Init PROVE IInv
    OBVIOUS
  <1>1. /\ current \in Objects /\ file = current /\ current # None
        /\ proc = [p \in Pids |-> Nothing]
        /\ field = [o \in Objects |-> [f \in Fields |-> None]]
        /\ overlapped = {} /\ late = {} /\ stranded = {} /\ excused = {}
    BY NoneAssumption DEF Init
  <1>2. \A c \in Calls : todo[c] = <<>> /\ ~Live(c) /\ obj[c] = current
    BY DEF Init, Live
  <1>3. \A c \in Calls : Left(c) = {} /\ Ops(c) = {}
    BY <1>2, Short, NamesOf DEF Left, Ops
  <1>4. \A c \in Calls : \A names : ~Has(c, names)
    BY <1>2 DEF Has
  <1>5. \A p \in Pids \cup {None} : ~Alive(p)
    BY <1>1 DEF Alive, Nothing
  <1>6. TypeOK
    <2>1. todo \in [Calls -> Seq(Steps)]
      BY Short DEF Init
    <2>2. begun \in 0..MaxBegun /\ failures \in 0..MaxFailures
      BY BoundsAssumption DEF Init
    <2>3. /\ status \in [Objects -> Statuses] /\ jobs \in [Objects -> Nat] /\ serving \in BOOLEAN
          /\ pid \in [Objects -> Pids \cup {None}] /\ context \in [Objects -> Pids \cup {None}]
          /\ obj \in [Calls -> Objects \cup {None}]
      BY DEF Init, Statuses
    <2>4. /\ field \in [Objects -> [Fields -> Pids \cup {None}]]
          /\ proc \in [Pids -> [runs : {"none", "desktop", "chrome"}, of : Objects \cup {None}]]
      BY <1>1 DEF Nothing
    <2> QED
      BY <1>1, <2>1, <2>2, <2>3, <2>4 DEF TypeOK
  <1>7. Form /\ OneRuns /\ Bound
    <2>1. Shape({}, FALSE)
      BY DEF Shape, Without
    <2>2. \A c \in Calls : Ordered(todo[c]) /\ (~AllSpawned(c)) = FALSE
      BY <1>2, <1>3, Short DEF AllSpawned
    <2>3. Form
      BY <1>3, <2>1, <2>2 DEF Form
    <2> QED
      BY <1>2, <2>3 DEF OneRuns, Suspended, Bound, Works
  <1>8. NoGhosts /\ Gone /\ Stranded
    BY <1>1 DEF NoGhosts, Gone, Stranded
  <1>9. Overlaps
    BY <1>4 DEF Overlaps, Overlap, Launches
  <1>10. Owned /\ Kept
    <2>1. \A o \in Objects, f \in Fields : ~Alive(field[o][f])
      BY <1>1, <1>5
    <2> QED
      BY <1>3, <1>5, <2>1 DEF Owned, Kept
  <1>11. Free /\ Listed /\ Ended
    BY <1>3, <1>5 DEF Free, Listed, Ended
  <1>12. Relaunch /\ Handler
    BY <1>3 DEF Relaunch, Handler, Undisturbed
  <1> QED
    BY <1>6, <1>7, <1>8, <1>9, <1>10, <1>11, <1>12 DEF IInv

(* The inductive invariant holds in every reachable state, for every number *)
(* of coroutines, objects, process ids, begun calls and failures.           *)
THEOREM Invariance == Spec => []IInv
  <1>1. Init => IInv
    BY InitHolds
  <1>2. IInv /\ [Next]_vars => IInv'
    <2> SUFFICES ASSUME IInv, [Next]_vars PROVE IInv'
      OBVIOUS
    <2>1. CASE UNCHANGED vars
      BY <2>1, StutterStep
    <2>2. CASE Reboot
      BY <2>2, RebootStep
    <2>3. CASE Idle
      BY <2>3, StutterStep DEF Idle
    <2>4. ASSUME NEW c \in Calls, Step(c) /\ UNCHANGED <<begun, failures>>, Grown
          PROVE  IInv'
      BY <2>4, CallStep
    <2>5. ASSUME NEW c \in Calls, AwaitRaises(c), Grown
          PROVE  IInv'
      BY <2>5, CallStep
    <2>6. ASSUME NEW c \in Calls, Begin(c) \/ CreateAccount(c), Grown
          PROVE  IInv'
      BY <2>6, BeginStep
    <2>7. ASSUME NEW p \in Pids, ProcessDies(p), Grown
          PROVE  IInv'
      BY <2>7, DeathStep
    <2> QED
      BY <2>1, <2>2, <2>3, <2>4, <2>5, <2>6, <2>7 DEF Next, Grown
  <1> QED
    BY <1>1, <1>2, PTL DEF Spec

(* Every variable keeps its type, so that every step of a coroutine and    *)
(* every process that a runtime refers to is one the code knows.           *)
THEOREM TypeCorrect == Spec => []TypeOK
  <1>1. IInv => TypeOK
    BY DEF IInv
  <1> QED
    BY <1>1, Invariance, PTL

(* AccountManager and AccountRuntime lose no process: each one that lives  *)
(* is in a field of the registered account's runtime, unless it was        *)
(* spawned for a runtime that two calls launched or ended at once, or for  *)
(* an account that was deleted while a call was at work on it.             *)
THEOREM NothingIsOrphaned == Spec => []NoOrphans
  <1>1. IInv => NoOrphans
    <2> SUFFICES ASSUME IInv, NEW p \in Pids, Alive(p)
                 PROVE  Referenced(p) \/ proc[p].of \in overlapped \cup late
      BY DEF NoOrphans
    <2>1. proc[p].of # None
      BY NoneAssumption DEF IInv, Owned
    <2> QED
      BY <2>1 DEF IInv, Kept, Referenced
  <1> QED
    BY <1>1, Invariance, PTL

(* AccountStore keeps no file of a deleted account and the registered      *)
(* account's file never holds an earlier one's data, unless the account    *)
(* was deleted while a call that saves it was at work.                     *)
THEOREM NothingComesBack == Spec => []NoGhosts
  <1>1. IInv => NoGhosts
    BY DEF IInv
  <1> QED
    BY <1>1, Invariance, PTL

(* A job of the scheduler that fails is handed back: its failure handler   *)
(* ends by an exception only when its account was removed, when something  *)
(* it waited for failed, or when another call worked on its runtime.       *)
THEOREM FailuresAreHandled == Spec => []JobsAreHandled
  <1>1. IInv => JobsAreHandled
    BY DEF IInv, Stranded, JobsAreHandled
  <1> QED
    BY <1>1, Invariance, PTL
============================================================================
