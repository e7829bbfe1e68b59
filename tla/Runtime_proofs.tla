--------------------------- MODULE Runtime_proofs ---------------------------
(***************************************************************************)
(* Proofs about Runtime, for any number of interferences.                  *)
(*                                                                         *)
(* That the runtime never gives up is not inductive: Resumes says what     *)
(* keeps it going, in every state of every handler.  Rearmed is the part   *)
(* that does not depend on the connection: a timer is armed, the server is *)
(* starting, or the handler of a button has still to do its last call.     *)
(* A connection is as good, as long as its end will be reported.           *)
(***************************************************************************)
EXTENDS Runtime, SequenceTheorems, WellFoundedInduction, TLAPS

\* The calls the handlers of the buttons end with, and those they make
\* before: disconnecting and stopping are nobody else's business.
Endings  == {"restart", "reconnect", "close"}
Inner == {"cleanup", "disconnect", "adaptorDisconnect", "stopServer",
          "stopProcess", "await"}

AtHead(c, f) == c # <<>> /\ Head(c) = f
Handling(c)  == \E i \in DOMAIN c : c[i] \in Endings

\* What the handlers leave in calls, in mode m.
InOrder(c, m) ==
  \A i \in DOMAIN c :
    /\ c[i] \in Inner => \E j \in DOMAIN c : i < j /\ c[j] \in Endings
    /\ i > 1 /\ c[i] = "hardCleanup" => c[i - 1] = "error"
    /\ i > 1 /\ c[i] = "restart" => c[i - 1] \in {"await", "stopServer"}
    /\ c[i] = "restart" => m = "project"
    /\ c[i] = "reconnect" => m = "host"

\* There is a server that can be connected to, as far as the window knows.
Serves == mode = "host" \/ process = "up"

Rearmed ==
  \/ window = "closed"
  \/ Handling(calls)
  \/ ~Serves /\ (process = "off" => restartTimer \/ unstarted)
  \/ Serves /\ (reconnectTimer \/ "failed" \in astray)

Typed ==
  /\ calls \in Seq(Frames)
  /\ mode \in {"host", "project"} /\ process \in {"off", "starting", "up"}
  /\ retry \in BOOLEAN /\ closing \in BOOLEAN
  /\ reconnectTimer \in BOOLEAN /\ restartTimer \in BOOLEAN
  /\ unstarted \in BOOLEAN

Resumes ==
  /\ Typed
  /\ InOrder(calls, mode)
  /\ retry \/ Handling(calls) \/ window = "closed"
  /\ \/ Rearmed
     \/ Serves /\ (socket # "idle" \/ (retry /\ AtHead(calls, "error")))
  /\ closing => Rearmed
  /\ AtHead(calls, "hardCleanup") => Rearmed
  /\ AtHead(calls, "restart") => process = "off"
  /\ mode = "host" => process = "off" /\ ~restartTimer

\* What is shown belongs to the adaptor as long as it is attached.
Sources ==
  /\ source # "destroyed"
  /\ source = "current" => project

-----------------------------------------------------------------------------
(* Calls                                                                   *)

\* A call returns.
LEMMA Pop ==
  ASSUME NEW c \in Seq(Frames), NEW m, InOrder(c, m), c # <<>>
  PROVE  /\ Tail(c) \in Seq(Frames)
         /\ InOrder(Tail(c), m)
         /\ Head(c) \notin Endings => (Handling(Tail(c)) <=> Handling(c))
         /\ Head(c) \in Inner => Handling(c) /\ Handling(Tail(c))
         /\ Head(c) \in Endings => Handling(c)
         /\ Head(c) # "error" => ~AtHead(Tail(c), "hardCleanup")
         /\ Head(c) \notin {"await", "stopServer"} =>
              ~AtHead(Tail(c), "restart")
         /\ Head(c) = "restart" => m = "project"
         /\ Head(c) = "reconnect" => m = "host"
<1> DEFINE t == Tail(c)
<1>1. /\ t \in Seq(Frames) /\ Len(t) = Len(c) - 1
      /\ \A i \in 1 .. Len(t) : t[i] = c[i + 1]
      /\ Len(c) \in Nat \ {0} /\ Head(c) = c[1]
      /\ DOMAIN c = 1 .. Len(c) /\ DOMAIN t = 1 .. Len(t)
  OBVIOUS
<1> HIDE DEF t
<1>2. InOrder(t, m)
  <2> SUFFICES ASSUME NEW i \in DOMAIN t
      PROVE /\ t[i] \in Inner => \E j \in DOMAIN t : i < j /\ t[j] \in Endings
            /\ i > 1 /\ t[i] = "hardCleanup" => t[i - 1] = "error"
            /\ i > 1 /\ t[i] = "restart" => t[i - 1] \in {"await", "stopServer"}
            /\ t[i] = "restart" => m = "project"
            /\ t[i] = "reconnect" => m = "host"
    BY DEF InOrder
  <2>1. i + 1 \in DOMAIN c /\ t[i] = c[i + 1] /\ i + 1 > 1
    BY <1>1
  <2>2. ASSUME t[i] \in Inner
        PROVE  \E j \in DOMAIN t : i < j /\ t[j] \in Endings
    <3>1. PICK k \in DOMAIN c : i + 1 < k /\ c[k] \in Endings
      BY <2>1, <2>2 DEF InOrder
    <3>2. k - 1 \in DOMAIN t /\ i < k - 1 /\ t[k - 1] = c[k]
      BY <3>1, <2>1, <1>1
    <3>3. QED
      BY <3>1, <3>2
  <2>3. i > 1 => t[i - 1] = c[i]
    BY <1>1
  <2>4. (i + 1) - 1 = i
    BY <1>1
  <2>5. /\ c[i + 1] = "hardCleanup" => c[i] = "error"
        /\ c[i + 1] = "restart" => c[i] \in {"await", "stopServer"}
        /\ c[i + 1] = "restart" => m = "project"
        /\ c[i + 1] = "reconnect" => m = "host"
    <3> HIDE DEF t
    <3>1. QED
      BY <2>1, <2>4 DEF InOrder
  <2>6. QED
    BY <2>1, <2>2, <2>3, <2>5, Zenon
<1>3. Head(c) \notin Endings => (Handling(t) <=> Handling(c))
  <2>1. \A i \in DOMAIN t : i + 1 \in DOMAIN c /\ t[i] = c[i + 1]
    BY <1>1
  <2>2. \A i \in DOMAIN c : i # 1 => i - 1 \in DOMAIN t /\ t[i - 1] = c[i]
    BY <1>1
  <2>3. ASSUME Handling(t) PROVE Handling(c)
    <3>1. PICK i \in DOMAIN t : t[i] \in Endings
      BY <2>3, Zenon DEF Handling
    <3>2. QED
      BY <2>1, <3>1, Zenon DEF Handling
  <2>4. ASSUME Head(c) \notin Endings, Handling(c) PROVE Handling(t)
    <3>1. PICK i \in DOMAIN c : c[i] \in Endings
      BY <2>4, Zenon DEF Handling
    <3>2. i # 1
      BY <1>1, <2>4, <3>1
    <3>3. QED
      BY <2>2, <3>1, <3>2, Zenon DEF Handling
  <2>5. QED
    BY <2>3, <2>4, Zenon
<1>4. 1 \in DOMAIN c
  BY <1>1
<1>5. Head(c) \in Inner => Handling(c)
  BY <1>1, <1>4 DEF Handling, InOrder
<1>6. /\ t # <<>> /\ Head(t) = "hardCleanup" => Head(c) = "error"
      /\ t # <<>> /\ Head(t) = "restart" => Head(c) \in {"await", "stopServer"}
  <2> SUFFICES ASSUME t # <<>>
      PROVE /\ Head(t) = "hardCleanup" => Head(c) = "error"
            /\ Head(t) = "restart" => Head(c) \in {"await", "stopServer"}
    OBVIOUS
  <2>1. Len(t) # 0 /\ Head(t) = t[1]
    BY <1>1
  <2>2. 2 \in DOMAIN c /\ Head(t) = c[2] /\ c[2 - 1] = Head(c)
    BY <2>1, <1>1
  <2>3. QED
    BY <2>2 DEF InOrder
<1>7. Inner \cap Endings = {}
  BY DEF Inner, Endings
<1>8. /\ Head(c) \in Endings => Handling(c)
      /\ Head(c) = "restart" => m = "project"
      /\ Head(c) = "reconnect" => m = "host"
  BY <1>1, <1>4 DEF Handling, InOrder
<1>9. QED
  BY <1>1, <1>2, <1>3, <1>5, <1>6, <1>7, <1>8 DEF AtHead, t

\* A call is put before the others.
LEMMA Push ==
  ASSUME NEW c \in Seq(Frames), NEW m, InOrder(c, m), NEW x \in Frames,
         x \in Inner => Handling(c),
         AtHead(c, "hardCleanup") => x = "error",
         AtHead(c, "restart") => x \in {"await", "stopServer"},
         x = "restart" => m = "project", x = "reconnect" => m = "host"
  PROVE  /\ <<x>> \o c \in Seq(Frames)
         /\ InOrder(<<x>> \o c, m)
         /\ Handling(<<x>> \o c) <=> x \in Endings \/ Handling(c)
         /\ \A f : AtHead(<<x>> \o c, f) <=> f = x
<1> DEFINE d == <<x>> \o c
<1>1. /\ d \in Seq(Frames) /\ Len(d) = Len(c) + 1 /\ d[1] = x
      /\ \A i \in 1 .. Len(c) : d[i + 1] = c[i]
      /\ DOMAIN c = 1 .. Len(c) /\ DOMAIN d = 1 .. Len(d)
      /\ d # <<>> /\ Head(d) = x /\ Len(c) \in Nat
      /\ c # <<>> => Head(c) = c[1]
  OBVIOUS
<1> HIDE DEF d
<1>2. \A i \in DOMAIN d : i # 1 => i - 1 \in DOMAIN c /\ d[i] = c[i - 1]
  BY <1>1
<1>3. \A i \in DOMAIN c : i + 1 \in DOMAIN d /\ d[i + 1] = c[i]
  BY <1>1
<1>4. Handling(d) <=> x \in Endings \/ Handling(c)
  <2>1. 1 \in DOMAIN d
    BY <1>1
  <2>2. QED
    BY <1>1, <1>2, <1>3, <2>1 DEF Handling
<1>5. InOrder(d, m)
  <2> SUFFICES ASSUME NEW i \in DOMAIN d
      PROVE /\ d[i] \in Inner => \E j \in DOMAIN d : i < j /\ d[j] \in Endings
            /\ i > 1 /\ d[i] = "hardCleanup" => d[i - 1] = "error"
            /\ i > 1 /\ d[i] = "restart" => d[i - 1] \in {"await", "stopServer"}
            /\ d[i] = "restart" => m = "project"
            /\ d[i] = "reconnect" => m = "host"
    BY DEF InOrder
  <2>1. CASE i = 1
    <3>1. ASSUME x \in Inner PROVE \E j \in DOMAIN d : i < j /\ d[j] \in Endings
      <4>1. PICK k \in DOMAIN c : c[k] \in Endings
        BY <3>1 DEF Handling
      <4>2. k + 1 \in DOMAIN d /\ i < k + 1 /\ d[k + 1] \in Endings
        BY <4>1, <1>1, <2>1
      <4>3. QED
        BY <4>2
    <3>2. QED
      BY <2>1, <3>1, <1>1
  <2>2. CASE i = 2
    <3>1. c # <<>> /\ d[i] = Head(c) /\ d[i - 1] = x /\ 1 \in DOMAIN c
      BY <2>2, <1>1, <1>2
    <3>2. ASSUME d[i] \in Inner
          PROVE  \E j \in DOMAIN d : i < j /\ d[j] \in Endings
      <4>1. PICK k \in DOMAIN c : 1 < k /\ c[k] \in Endings
        BY <3>1, <3>2, <1>1 DEF InOrder
      <4>2. k + 1 \in DOMAIN d /\ i < k + 1 /\ d[k + 1] \in Endings
        BY <4>1, <1>1, <2>2
      <4>3. QED
        BY <4>2
    <3>3. d[i] = c[1]
      BY <3>1, <1>1
    <3>4. QED
      BY <3>1, <3>2, <3>3 DEF AtHead, InOrder
  <2>3. CASE i > 2
    <3>1. /\ i - 1 \in DOMAIN c /\ d[i] = c[i - 1] /\ i - 1 > 1
          /\ d[i - 1] = c[i - 2] /\ (i - 1) - 1 = i - 2
      BY <2>3, <1>1, <1>2
    <3>2. ASSUME d[i] \in Inner
          PROVE  \E j \in DOMAIN d : i < j /\ d[j] \in Endings
      <4>1. PICK k \in DOMAIN c : i - 1 < k /\ c[k] \in Endings
        BY <3>1, <3>2 DEF InOrder
      <4>2. k + 1 \in DOMAIN d /\ i < k + 1 /\ d[k + 1] \in Endings
        BY <4>1, <1>1
      <4>3. QED
        BY <4>2
    <3>3. QED
      BY <3>1, <3>2 DEF InOrder
  <2>4. QED
    BY <2>1, <2>2, <2>3, <1>1
<1>6. QED
  BY <1>1, <1>4, <1>5 DEF AtHead, d

\* Several calls are put before the others one by one.
LEMMA PushTwo ==
  ASSUME NEW c \in Seq(Frames), NEW x \in Frames, NEW y \in Frames
  PROVE  <<x, y>> \o c = <<x>> \o (<<y>> \o c)
<1> DEFINE a == <<x, y>> \o c
           b == <<y>> \o c
           d == <<x>> \o b
<1>1. /\ a \in Seq(Frames) /\ Len(a) = Len(c) + 2 /\ a[1] = x /\ a[2] = y
      /\ \A i \in 1 .. Len(c) : a[i + 2] = c[i]
  OBVIOUS
<1>2. /\ b \in Seq(Frames) /\ Len(b) = Len(c) + 1 /\ b[1] = y
      /\ \A i \in 1 .. Len(c) : b[i + 1] = c[i]
  OBVIOUS
<1> HIDE DEF b
<1>3. /\ d \in Seq(Frames) /\ Len(d) = Len(b) + 1 /\ d[1] = x
      /\ \A i \in 1 .. Len(b) : d[i + 1] = b[i]
  BY <1>2
<1> HIDE DEF a, d
<1>4. ASSUME NEW i \in 1 .. Len(a) PROVE a[i] = d[i]
  <2>1. CASE i = 1
    BY <2>1, <1>1, <1>3
  <2>2. CASE i = 2
    <3>1. 1 \in 1 .. Len(b) /\ d[1 + 1] = b[1]
      BY <1>2, <1>3
    <3>2. QED
      BY <2>2, <3>1, <1>1, <1>2
  <2>3. CASE i > 2
    <3>1. i - 2 \in 1 .. Len(c) /\ i - 1 \in 1 .. Len(b)
      BY <2>3, <1>1, <1>2
    <3>2. a[(i - 2) + 2] = c[i - 2] /\ b[(i - 2) + 1] = c[i - 2]
      BY <3>1, <1>1, <1>2
    <3>3. d[(i - 1) + 1] = b[i - 1]
      BY <3>1, <1>3
    <3>4. (i - 2) + 2 = i /\ (i - 1) + 1 = i /\ (i - 2) + 1 = i - 1
      BY <3>1
    <3>5. QED
      BY <3>2, <3>3, <3>4
  <2>4. QED
    BY <2>1, <2>2, <2>3, <1>1
<1>5. Len(a) = Len(d)
  BY <1>1, <1>2, <1>3
<1>6. a = d
  BY <1>1, <1>3, <1>4, <1>5, SeqEqual
<1>7. QED
  BY <1>6 DEF a, b, d

LEMMA PushThree ==
  ASSUME NEW c \in Seq(Frames), NEW x \in Frames, NEW y \in Frames,
         NEW z \in Frames
  PROVE  <<x, y, z>> \o c = <<x>> \o (<<y, z>> \o c)
<1> DEFINE a == <<x, y, z>> \o c
           b == <<y, z>> \o c
           d == <<x>> \o b
<1>1. /\ a \in Seq(Frames) /\ Len(a) = Len(c) + 3
      /\ a[1] = x /\ a[2] = y /\ a[3] = z
      /\ \A i \in 1 .. Len(c) : a[i + 3] = c[i]
  OBVIOUS
<1>2. /\ b \in Seq(Frames) /\ Len(b) = Len(c) + 2 /\ b[1] = y /\ b[2] = z
      /\ \A i \in 1 .. Len(c) : b[i + 2] = c[i]
  OBVIOUS
<1> HIDE DEF b
<1>3. /\ d \in Seq(Frames) /\ Len(d) = Len(b) + 1 /\ d[1] = x
      /\ \A i \in 1 .. Len(b) : d[i + 1] = b[i]
  BY <1>2
<1> HIDE DEF a, d
<1>4. ASSUME NEW i \in 1 .. Len(a) PROVE a[i] = d[i]
  <2>1. CASE i = 1
    BY <2>1, <1>1, <1>3
  <2>2. CASE i \in {2, 3}
    <3>1. /\ 1 \in 1 .. Len(b) /\ d[1 + 1] = b[1]
          /\ 2 \in 1 .. Len(b) /\ d[2 + 1] = b[2]
      BY <1>2, <1>3
    <3>2. QED
      BY <2>2, <3>1, <1>1, <1>2
  <2>3. CASE i > 3
    <3>1. i - 3 \in 1 .. Len(c) /\ i - 1 \in 1 .. Len(b)
      BY <2>3, <1>1, <1>2
    <3>2. a[(i - 3) + 3] = c[i - 3] /\ b[(i - 3) + 2] = c[i - 3]
      BY <3>1, <1>1, <1>2
    <3>3. d[(i - 1) + 1] = b[i - 1]
      BY <3>1, <1>3
    <3>4. (i - 3) + 3 = i /\ (i - 1) + 1 = i /\ (i - 3) + 2 = i - 1
      BY <3>1
    <3>5. QED
      BY <3>2, <3>3, <3>4
  <2>4. QED
    BY <2>1, <2>2, <2>3, <1>1
<1>5. Len(a) = Len(d)
  BY <1>1, <1>2, <1>3
<1>6. a = d
  BY <1>1, <1>3, <1>4, <1>5, SeqEqual
<1>7. QED
  BY <1>6 DEF a, b, d

\* What the handlers put before the others when none of the buttons is
\* concerned.
LEMMA PushPlain ==
  ASSUME NEW c \in Seq(Frames), NEW m, InOrder(c, m),
         NEW x \in {"process", "select", "hardCleanup", "error"},
         ~AtHead(c, "hardCleanup"), ~AtHead(c, "restart")
  PROVE  /\ <<x>> \o c \in Seq(Frames)
         /\ InOrder(<<x>> \o c, m)
         /\ Handling(<<x>> \o c) <=> Handling(c)
         /\ \A f : AtHead(<<x>> \o c, f) <=> f = x
<1>1. x \in Frames /\ x \notin Inner /\ x \notin Endings
  BY DEF Frames, Inner, Endings
<1>2. QED
  BY <1>1, Push DEF Endings

LEMMA PushError ==
  ASSUME NEW c \in Seq(Frames), NEW m, InOrder(c, m),
         ~AtHead(c, "hardCleanup"), ~AtHead(c, "restart")
  PROVE  /\ <<"error", "hardCleanup">> \o c \in Seq(Frames)
         /\ InOrder(<<"error", "hardCleanup">> \o c, m)
         /\ Handling(<<"error", "hardCleanup">> \o c) <=> Handling(c)
         /\ \A f : AtHead(<<"error", "hardCleanup">> \o c, f) <=> f = "error"
<1> DEFINE d == <<"hardCleanup">> \o c
<1>1. /\ d \in Seq(Frames)
      /\ InOrder(d, m)
      /\ Handling(d) <=> Handling(c)
      /\ \A f : AtHead(d, f) <=> f = "hardCleanup"
  BY PushPlain
<1>2. /\ "error" \in Frames /\ "error" \notin Inner /\ "error" \notin Endings
      /\ "hardCleanup" \in Frames
  BY DEF Frames, Inner, Endings
<1>3. <<"error", "hardCleanup">> \o c = <<"error">> \o d
  BY <1>2, PushTwo
<1> HIDE DEF d
<1>4. /\ <<"error">> \o d \in Seq(Frames)
      /\ InOrder(<<"error">> \o d, m)
      /\ Handling(<<"error">> \o d) <=> Handling(d)
      /\ \A f : AtHead(<<"error">> \o d, f) <=> f = "error"
  <2>1. ~AtHead(d, "restart")
    BY <1>1
  <2>2. QED
    BY <1>1, <1>2, <2>1, Push
<1>5. QED
  BY <1>1, <1>3, <1>4

\* What the handlers of the buttons put before their last call.
LEMMA PushInner ==
  ASSUME NEW c \in Seq(Frames), NEW m, InOrder(c, m), Handling(c),
         NEW x \in Inner,
         ~AtHead(c, "hardCleanup"),
         AtHead(c, "restart") => x \in {"await", "stopServer"}
  PROVE  /\ <<x>> \o c \in Seq(Frames)
         /\ InOrder(<<x>> \o c, m)
         /\ Handling(<<x>> \o c)
         /\ \A f : AtHead(<<x>> \o c, f) <=> f = x
<1>1. x \in Frames /\ x # "restart" /\ x # "reconnect"
  BY DEF Frames, Inner
<1>2. QED
  BY <1>1, Push

\* And that last call.
LEMMA PushLast ==
  ASSUME NEW c \in Seq(Frames), NEW m, InOrder(c, m), NEW x \in Endings,
         ~AtHead(c, "hardCleanup"), ~AtHead(c, "restart"),
         x = "restart" => m = "project", x = "reconnect" => m = "host"
  PROVE  /\ <<x>> \o c \in Seq(Frames)
         /\ InOrder(<<x>> \o c, m)
         /\ Handling(<<x>> \o c)
         /\ \A f : AtHead(<<x>> \o c, f) <=> f = x
<1>1. x \in Frames /\ x \notin Inner
  BY DEF Frames, Inner, Endings
<1>2. QED
  BY <1>1, Push

\* An event that is delivered finds no handler, or one that waits.
LEMMA Delivered ==
  Listening => \A f \in Frames \ {"await"} : ~AtHead(calls, f)
BY DEF Listening, AtHead

-----------------------------------------------------------------------------
(* The runtime resumes                                                     *)

LEMMA ResumesInit == Init => Resumes
<1> SUFFICES ASSUME Init PROVE Resumes
  OBVIOUS
<1>1. calls = <<>> /\ DOMAIN calls = {} /\ calls \in Seq(Frames)
  <2>1. DOMAIN <<>> = {} /\ <<>> \in Seq(Frames)
    OBVIOUS
  <2>2. QED
    BY <2>1 DEF Init
<1>2. InOrder(calls, mode) /\ \A f : ~AtHead(calls, f)
  BY <1>1 DEF InOrder, AtHead
<1>3. mode \in {"host", "project"}
  BY RuntimeAssumption DEF Init
<1>4. QED
  BY <1>1, <1>2, <1>3 DEF Init, Resumes, Typed, Rearmed, Serves

\* The calls of the adaptor and of the window that end nothing.
LEMMA ReturnsKeep ==
  ASSUME Resumes,
         \/ ProcessNothing \/ Cleanup \/ SelectView \/ StopProcess
         \/ SelectNothing \/ ConnectionErrorSlot \/ Awaited
  PROVE  Resumes'
<1>1. /\ calls \in Seq(Frames) /\ InOrder(calls, mode)
      /\ mode \in {"host", "project"}
  BY DEF Resumes, Typed
<1>2. ASSUME calls # <<>>
      PROVE  /\ Tail(calls) \in Seq(Frames)
             /\ InOrder(Tail(calls), mode)
             /\ Head(calls) \notin Endings =>
                  (Handling(Tail(calls)) <=> Handling(calls))
             /\ Head(calls) \in Inner =>
                  Handling(calls) /\ Handling(Tail(calls))
             /\ Head(calls) # "error" => ~AtHead(Tail(calls), "hardCleanup")
             /\ Head(calls) \notin {"await", "stopServer"} =>
                  ~AtHead(Tail(calls), "restart")
  BY <1>1, <1>2, Pop
<1> USE DEF windowvars, adaptorvars, buildvars, netvars, procvars, Calling
<1>3. CASE ProcessNothing
  BY <1>2, <1>3 DEF ProcessNothing, Return, Resumes, Typed, Rearmed, Serves,
                    AtHead, Endings
<1>4. CASE Cleanup
  BY <1>2, <1>4 DEF Cleanup, Return, Resumes, Typed, Rearmed, Serves,
                    AtHead, Endings, Inner
<1>5. CASE SelectView
  <2>1. /\ calls' = <<"process">> \o Tail(calls)
        /\ calls # <<>> /\ Head(calls) = "select"
    BY <1>5 DEF SelectView, ReturnInto
  <2>2. /\ calls' \in Seq(Frames) /\ InOrder(calls', mode)
        /\ Handling(calls') <=> Handling(calls)
        /\ \A f : AtHead(calls', f) <=> f = "process"
    BY <1>1, <1>2, <2>1, PushPlain DEF Endings
  <2>3. QED
    BY <1>5, <2>1, <2>2 DEF SelectView, Resumes, Typed, Rearmed, Serves,
                            AtHead
<1>6. CASE StopProcess
  BY <1>2, <1>6 DEF StopProcess, Return, Resumes, Typed, Rearmed, Serves,
                    AtHead, Endings
<1>7. CASE ConnectionErrorSlot
  BY <1>2, <1>7 DEF ConnectionErrorSlot, Return, Resumes, Typed, Rearmed,
                    Serves, AtHead, Endings, TriesAgain
<1>8. CASE Awaited
  BY <1>2, <1>8 DEF Awaited, Return, Resumes, Typed, Rearmed, Serves,
                    AtHead, Endings, Inner
<1>9. CASE SelectNothing
  <2>1. calls' = <<>> /\ window' = "closed"
    BY <1>9 DEF SelectNothing
  <2>2. /\ calls' \in Seq(Frames) /\ InOrder(calls', mode)
        /\ \A f : ~AtHead(calls', f)
    BY <2>1 DEF InOrder, AtHead
  <2>3. QED
    BY <1>9, <2>1, <2>2 DEF SelectNothing, Resumes, Typed, Rearmed
<1>10. QED
  BY <1>3, <1>4, <1>5, <1>6, <1>7, <1>8, <1>9
\* The handlers of the buttons, once they are running.
LEMMA ButtonsKeep ==
  ASSUME Resumes,
         AdaptorDisconnect \/ Disconnect \/ StopServer \/ Restart \/ Reconnect
         \/ Close
  PROVE  Resumes'
<1>1. /\ calls \in Seq(Frames) /\ InOrder(calls, mode)
      /\ mode \in {"host", "project"}
  BY DEF Resumes, Typed
<1>2. ASSUME calls # <<>>
      PROVE  /\ Tail(calls) \in Seq(Frames)
             /\ InOrder(Tail(calls), mode)
             /\ Head(calls) \notin Endings =>
                  (Handling(Tail(calls)) <=> Handling(calls))
             /\ Head(calls) \in Inner =>
                  Handling(calls) /\ Handling(Tail(calls))
             /\ Head(calls) # "error" => ~AtHead(Tail(calls), "hardCleanup")
             /\ Head(calls) \notin {"await", "stopServer"} =>
                  ~AtHead(Tail(calls), "restart")
             /\ Head(calls) = "restart" => mode = "project"
             /\ Head(calls) = "reconnect" => mode = "host"
  BY <1>1, <1>2, Pop
<1> USE DEF windowvars, adaptorvars, buildvars, netvars, procvars, Calling
<1>3. CASE AdaptorDisconnect
  <2> DEFINE t == Tail(calls)
  <2>1. /\ calls # <<>> /\ Head(calls) = "adaptorDisconnect"
        /\ calls' \in {<<"cleanup">> \o t, <<"process", "cleanup">> \o t}
    BY <1>3, SMTT(30) DEF AdaptorDisconnect, ReturnInto
  <2>2. /\ t \in Seq(Frames) /\ InOrder(t, mode) /\ Handling(t)
        /\ ~AtHead(t, "hardCleanup") /\ ~AtHead(t, "restart")
    BY <1>2, <2>1 DEF Inner
  <2> HIDE DEF t
  <2>3. /\ <<"cleanup">> \o t \in Seq(Frames)
        /\ InOrder(<<"cleanup">> \o t, mode)
        /\ Handling(<<"cleanup">> \o t)
        /\ \A f : AtHead(<<"cleanup">> \o t, f) <=> f = "cleanup"
    <3>1. "cleanup" \in Inner
      BY DEF Inner
    <3>2. QED
      BY <2>2, <3>1, PushInner, Zenon
  <2>4. <<"process", "cleanup">> \o t = <<"process">> \o (<<"cleanup">> \o t)
    <3>1. {"process", "cleanup"} \subseteq Frames
      BY Zenon DEF Frames
    <3>2. QED
      BY <2>2, <3>1, PushTwo, Zenon
  <2>5. /\ <<"process", "cleanup">> \o t \in Seq(Frames)
        /\ InOrder(<<"process", "cleanup">> \o t, mode)
        /\ Handling(<<"process", "cleanup">> \o t)
        /\ \A f : AtHead(<<"process", "cleanup">> \o t, f) <=> f = "process"
    BY <2>3, <2>4, PushPlain
  <2>6. /\ calls' \in Seq(Frames)
        /\ InOrder(calls', mode)
        /\ Handling(calls')
        /\ ~AtHead(calls', "restart")
    BY <2>1, <2>3, <2>5
  <2>7. QED
    BY <1>3, <2>6 DEF AdaptorDisconnect, Resumes, Typed, Rearmed
<1>4. CASE Disconnect
  <2> DEFINE t == Tail(calls)
  <2>1. /\ calls # <<>> /\ Head(calls) = "disconnect"
        /\ calls' \in {<<>> \o t, <<"adaptorDisconnect">> \o t}
    BY <1>4 DEF Disconnect, ReturnInto
  <2>2. /\ t \in Seq(Frames) /\ InOrder(t, mode) /\ Handling(t)
        /\ ~AtHead(t, "hardCleanup") /\ ~AtHead(t, "restart")
    BY <1>2, <2>1 DEF Inner
  <2> HIDE DEF t
  <2>3. /\ <<"adaptorDisconnect">> \o t \in Seq(Frames)
        /\ InOrder(<<"adaptorDisconnect">> \o t, mode)
        /\ Handling(<<"adaptorDisconnect">> \o t)
        /\ \A f : AtHead(<<"adaptorDisconnect">> \o t, f)
                    <=> f = "adaptorDisconnect"
    BY <2>2, PushInner DEF Inner
  <2>4. <<>> \o t = t
    BY <2>2
  <2>5. /\ calls' \in Seq(Frames)
        /\ InOrder(calls', mode)
        /\ Handling(calls')
        /\ ~AtHead(calls', "restart")
    BY <2>1, <2>2, <2>3, <2>4
  <2>6. QED
    BY <1>4, <2>5 DEF Disconnect, Resumes, Typed, Rearmed
<1>5. CASE StopServer
  <2> DEFINE t == Tail(calls)
  <2>1. /\ calls # <<>> /\ Head(calls) = "stopServer"
        /\ calls' = <<"disconnect", "stopProcess", "await">> \o t
    BY <1>5 DEF StopServer, ReturnInto
  <2>2. /\ t \in Seq(Frames) /\ InOrder(t, mode) /\ Handling(t)
        /\ ~AtHead(t, "hardCleanup")
    BY <1>2, <2>1 DEF Inner
  <2> HIDE DEF t
  <2> DEFINE a == <<"await">> \o t
             b == <<"stopProcess">> \o a
             d == <<"disconnect">> \o b
  <2>3. /\ a \in Seq(Frames) /\ InOrder(a, mode) /\ Handling(a)
        /\ \A f : AtHead(a, f) <=> f = "await"
    <3>1. "await" \in Inner /\ "await" \in {"await", "stopServer"}
      BY Zenon DEF Inner
    <3>2. QED
      BY <2>2, <3>1, PushInner, Zenon
  <2>4. /\ <<"disconnect", "stopProcess", "await">> \o t =
             <<"disconnect">> \o (<<"stopProcess", "await">> \o t)
        /\ <<"stopProcess", "await">> \o t = b
    <3>1. /\ "disconnect" \in Frames /\ "stopProcess" \in Frames
          /\ "await" \in Frames
      BY Zenon DEF Frames
    <3>2. <<"disconnect", "stopProcess", "await">> \o t =
            <<"disconnect">> \o (<<"stopProcess", "await">> \o t)
      BY <2>2, <3>1, PushThree, ZenonT(60)
    <3>3. <<"stopProcess", "await">> \o t = b
      BY <2>2, <3>1, PushTwo, Zenon
    <3>4. QED
      BY <3>2, <3>3
  <2> HIDE DEF a
  <2>5. /\ b \in Seq(Frames) /\ InOrder(b, mode) /\ Handling(b)
        /\ \A f : AtHead(b, f) <=> f = "stopProcess"
    BY <2>3, PushInner DEF Inner
  <2> HIDE DEF b
  <2>6. /\ d \in Seq(Frames) /\ InOrder(d, mode) /\ Handling(d)
        /\ \A f : AtHead(d, f) <=> f = "disconnect"
    BY <2>5, PushInner DEF Inner
  <2>7. calls' = d
    BY <2>1, <2>4
  <2> HIDE DEF d
  <2>8. QED
    BY <1>5, <2>6, <2>7 DEF StopServer, Resumes, Typed, Rearmed
<1>6. CASE Restart
  <2>1. /\ calls # <<>> /\ Head(calls) = "restart" /\ calls' = Tail(calls)
        /\ mode' = mode /\ retry' = TRUE /\ closing' = closing
        /\ \/ process' = "starting" /\ unstarted' = FALSE
           \/ process' = "off" /\ unstarted' = TRUE
    BY <1>6 DEF Restart, Return, StartProcess, Resumes, AtHead
  <2>2. /\ calls' \in Seq(Frames) /\ InOrder(calls', mode)
        /\ ~AtHead(calls', "restart") /\ mode = "project"
    BY <1>2, <2>1
  <2>3. QED
    BY <1>6, <2>1, <2>2 DEF Restart, Resumes, Typed, Rearmed, Serves
<1>7. CASE Reconnect
  <2>1. /\ calls # <<>> /\ Head(calls) = "reconnect" /\ calls' = Tail(calls)
    BY <1>7 DEF Reconnect, Return
  <2>2. /\ calls' \in Seq(Frames) /\ InOrder(calls', mode)
        /\ ~AtHead(calls', "restart") /\ ~AtHead(calls', "hardCleanup")
        /\ mode = "host"
    BY <1>2, <2>1
  <2>3. QED
    BY <1>7, <2>2 DEF Reconnect, ConnectToHost, Resumes, Typed, Rearmed,
                      Serves
<1>8. CASE Close
  <2>1. /\ calls # <<>> /\ Head(calls) = "close" /\ calls' = Tail(calls)
    BY <1>8 DEF Close, Return
  <2>2. /\ calls' \in Seq(Frames) /\ InOrder(calls', mode)
        /\ ~AtHead(calls', "restart")
    BY <1>2, <2>1
  <2>3. QED
    BY <1>8, <2>2 DEF Close, Resumes, Typed, Rearmed
<1>9. QED
  BY <1>3, <1>4, <1>5, <1>6, <1>7, <1>8
\* A round of the session ends well, or in an error that is reported before
\* the connection is given up.
LEMMA ProcessKeeps ==
  ASSUME Resumes, ProcessPendingEvents
  PROVE  Resumes'
<1> DEFINE t == Tail(calls)
<1>1. /\ calls \in Seq(Frames) /\ InOrder(calls, mode)
      /\ calls # <<>> /\ Head(calls) = "process"
  BY DEF Resumes, Typed, ProcessPendingEvents, Calling
<1>2. /\ t \in Seq(Frames) /\ InOrder(t, mode)
      /\ ~AtHead(t, "hardCleanup") /\ ~AtHead(t, "restart")
  BY <1>1, Pop
<1>3. Handling(t) <=> Handling(calls)
  BY <1>1, Pop DEF Endings
<1>4. /\ calls' \in {<<"error", "hardCleanup">> \o t, t}
      /\ astray \subseteq astray'
      /\ UNCHANGED <<mode, window, retry, reconnectTimer, restartTimer,
                     closing, socket, process, unstarted>>
  BY DEF ProcessPendingEvents, Return, ReturnInto, windowvars, procvars
<1> HIDE DEF t
<1>5. /\ calls' \in Seq(Frames) /\ InOrder(calls', mode)
      /\ ~AtHead(calls', "hardCleanup") /\ ~AtHead(calls', "restart")
  BY <1>2, <1>4, PushError
<1>6. Handling(calls') <=> Handling(calls)
  BY <1>2, <1>3, <1>4, PushError
<1>7. QED
  BY <1>1, <1>4, <1>5, <1>6 DEF Resumes, Typed, Rearmed, Serves, AtHead

\* Events that call nothing, or one thing of no consequence.
LEMMA QuietEventsKeep ==
  ASSUME Resumes,
         \/ SocketConnected \/ SocketReadyRead \/ EventTimer \/ ShutdownTimer
         \/ ServerReady \/ ServerExited \/ PickView \/ CustomEvent
         \/ ReconnectTimer \/ RestartTimer
  PROVE  Resumes'
<1>1. /\ calls \in Seq(Frames) /\ InOrder(calls, mode)
      /\ mode \in {"host", "project"}
  BY DEF Resumes, Typed
<1>2. /\ ~AtHead(calls, "hardCleanup") /\ ~AtHead(calls, "restart")
      /\ ~AtHead(calls, "error")
  <2>1. Listening
    BY DEF SocketConnected, SocketReadyRead, EventTimer, ShutdownTimer,
           ServerReady, ServerExited, PickView, CustomEvent, ReconnectTimer,
           RestartTimer
  <2>2. QED
    BY <2>1, Delivered DEF Frames
<1>3. \A x \in {"process", "select"} :
        /\ <<x>> \o calls \in Seq(Frames)
        /\ InOrder(<<x>> \o calls, mode)
        /\ Handling(<<x>> \o calls) <=> Handling(calls)
        /\ \A f : AtHead(<<x>> \o calls, f) <=> f = x
  BY <1>1, <1>2, PushPlain
<1> USE DEF windowvars, adaptorvars, buildvars, netvars, procvars
<1>4. CASE SocketConnected
  BY <1>2, <1>4 DEF SocketConnected, Resumes, Typed, Rearmed, Serves
<1>5. CASE SocketReadyRead
  BY <1>2, <1>5 DEF SocketReadyRead, Resumes, Typed, Rearmed, Serves
<1>6. CASE EventTimer
  BY <1>2, <1>3, <1>6 DEF EventTimer, Handle, Resumes, Typed, Rearmed, Serves
<1>7. CASE ShutdownTimer
  BY <1>2, <1>7 DEF ShutdownTimer, Resumes, Typed, Rearmed, Serves
<1>8. CASE ServerReady
  BY <1>2, <1>8 DEF ServerReady, Resumes, Typed, Rearmed, Serves
<1>9. CASE ServerExited
  BY <1>2, <1>9 DEF ServerExited, Resumes, Typed, Rearmed, Serves
<1>10. CASE PickView
  <2>1. /\ calls' = <<"select">> \o calls /\ astray \subseteq astray'
        /\ UNCHANGED <<mode, window, retry, reconnectTimer, restartTimer,
                       closing, socket, process, unstarted>>
    BY <1>10 DEF PickView, Handle
  <2>2. QED
    BY <1>2, <1>3, <2>1 DEF Resumes, Typed, Rearmed, Serves
<1>11. CASE CustomEvent
  BY <1>2, <1>3, <1>11 DEF CustomEvent, Handle, Resumes, Typed, Rearmed,
                           Serves
<1>12. CASE ReconnectTimer
  BY <1>2, <1>12 DEF ReconnectTimer, ConnectToHost, Resumes, Typed, Rearmed,
                     Serves
<1>13. CASE RestartTimer
  <2>1. /\ \/ process = "off" /\ process' = "starting" /\ unstarted' = FALSE
           \/ process = "off" /\ process' = "off" /\ unstarted' = TRUE
           \/ process # "off" /\ process' = process /\ unstarted' = unstarted
        /\ UNCHANGED <<mode, window, calls, retry, reconnectTimer, closing,
                       socket, astray>>
        /\ restartTimer' = FALSE
    BY <1>13 DEF RestartTimer, StartProcess
  <2>2. CASE process = "off"
    <3>1. \/ process' = "starting" /\ unstarted' = FALSE
          \/ process' = "off" /\ unstarted' = TRUE
      BY <2>1, <2>2
    <3>2. mode = "project"
      BY <1>13 DEF RestartTimer, Resumes, Typed
    <3>3. QED
      BY <1>2, <2>1, <2>2, <3>1, <3>2 DEF Resumes, Typed, Rearmed, Serves
  <2>3. CASE process # "off"
    <3>1. process' = process /\ unstarted' = unstarted
      BY <2>1, <2>3
    <3>2. QED
      BY <1>2, <2>1, <2>3, <3>1 DEF Resumes, Typed, Rearmed, Serves
  <2>4. QED
    BY <2>2, <2>3
<1>14. QED
  BY <1>4, <1>5, <1>6, <1>7, <1>8, <1>9, <1>10, <1>11, <1>12, <1>13

\* A connection ends, a download ends, a button is pressed.
LEMMA LoudEventsKeep ==
  ASSUME Resumes,
         \/ SocketError \/ SocketConnectionClosed \/ StartProjectDownload
         \/ DownloadFinished \/ PressButton
  PROVE  Resumes'
<1>1. /\ calls \in Seq(Frames) /\ InOrder(calls, mode)
      /\ mode \in {"host", "project"}
  BY DEF Resumes, Typed
<1>2. /\ ~AtHead(calls, "hardCleanup") /\ ~AtHead(calls, "restart")
      /\ ~AtHead(calls, "error")
  <2>1. Listening
    BY DEF SocketError, SocketConnectionClosed, StartProjectDownload,
           DownloadDue, DownloadFinished, PressButton
  <2>2. QED
    BY <2>1, Delivered DEF Frames
<1>3. \A x \in {"select", "hardCleanup", "error"} :
        /\ <<x>> \o calls \in Seq(Frames)
        /\ InOrder(<<x>> \o calls, mode)
        /\ Handling(<<x>> \o calls) <=> Handling(calls)
        /\ \A f : AtHead(<<x>> \o calls, f) <=> f = x
  BY <1>1, <1>2, PushPlain
<1> USE DEF windowvars, adaptorvars, buildvars, netvars, procvars
<1>4. CASE SocketError
  <2>1. /\ calls' = <<"error", "hardCleanup">> \o calls
        /\ UNCHANGED <<mode, window, retry, reconnectTimer, restartTimer,
                       closing, process, unstarted, astray>>
    BY <1>4 DEF SocketError, Handle
  <2>2. /\ calls' \in Seq(Frames)
        /\ InOrder(calls', mode)
        /\ Handling(calls') <=> Handling(calls)
        /\ \A f : AtHead(calls', f) <=> f = "error"
    BY <1>1, <1>2, <2>1, PushError
  <2>3. QED
    BY <1>2, <2>1, <2>2 DEF Resumes, Typed, Rearmed, Serves
<1>5. CASE SocketConnectionClosed
  <2>1. /\ calls' = (IF closing THEN <<>> ELSE <<"error">>) \o calls
        /\ UNCHANGED <<mode, window, retry, reconnectTimer, restartTimer,
                       closing, process, unstarted, astray>>
    BY <1>5 DEF SocketConnectionClosed, Handle
  <2>2. CASE closing
    <3>1. calls' = calls
      BY <1>1, <2>1, <2>2
    <3>2. QED
      BY <1>2, <2>1, <2>2, <3>1 DEF Resumes, Typed, Rearmed, Serves
  <2>3. CASE ~closing
    BY <1>2, <1>3, <2>1, <2>3 DEF Resumes, Typed, Rearmed, Serves
  <2>4. QED
    BY <2>2, <2>3
<1>6. CASE StartProjectDownload \/ DownloadFinished
  <2>1. /\ \/ calls' = calls /\ astray' = astray
           \/ calls' = <<"select">> \o calls /\ astray \subseteq astray'
           \/ /\ calls' = <<"hardCleanup">> \o calls
              /\ astray' = astray \cup {"failed"}
        /\ UNCHANGED <<mode, window, retry, reconnectTimer, restartTimer,
                       closing, socket, process, unstarted>>
    BY <1>6 DEF StartProjectDownload, DownloadFinished, ProjectReady,
                ProjectEmpty, ProjectFailed, Handle
  <2>2. QED
    BY <1>2, <1>3, <2>1 DEF Resumes, Typed, Rearmed, Serves
<1>7. CASE PressButton
  <2> DEFINE r == <<"restart">> \o calls
             s == <<"stopServer">> \o r
             n == <<"reconnect">> \o calls
             d == <<"disconnect">> \o n
             e == <<"close">> \o calls
             f1 == <<"stopServer">> \o e
             f2 == <<"disconnect">> \o f1
  <2>1. /\ <<"stopServer", "restart">> \o calls = s
        /\ <<"disconnect", "reconnect">> \o calls = d
        /\ <<"disconnect", "stopServer", "close">> \o calls = f2
    <3>1. /\ "stopServer" \in Frames /\ "restart" \in Frames
          /\ "disconnect" \in Frames /\ "reconnect" \in Frames
          /\ "close" \in Frames
      BY DEF Frames
    <3>2. <<"stopServer", "restart">> \o calls = s
      BY <1>1, <3>1, PushTwo
    <3>3. <<"disconnect", "reconnect">> \o calls = d
      BY <1>1, <3>1, PushTwo
    <3>4. <<"stopServer", "close">> \o calls = f1
      BY <1>1, <3>1, PushTwo
    <3>5. <<"disconnect", "stopServer", "close">> \o calls =
            <<"disconnect">> \o (<<"stopServer", "close">> \o calls)
      BY <1>1, <3>1, PushThree
    <3>6. QED
      BY <3>2, <3>3, <3>4, <3>5
  <2>2. mode = "project" =>
          /\ r \in Seq(Frames) /\ InOrder(r, mode) /\ Handling(r)
          /\ \A f : AtHead(r, f) <=> f = "restart"
    BY <1>1, <1>2, PushLast DEF Endings
  <2>3. mode = "host" =>
          /\ n \in Seq(Frames) /\ InOrder(n, mode) /\ Handling(n)
          /\ \A f : AtHead(n, f) <=> f = "reconnect"
    BY <1>1, <1>2, PushLast DEF Endings
  <2>4. /\ e \in Seq(Frames) /\ InOrder(e, mode) /\ Handling(e)
        /\ \A f : AtHead(e, f) <=> f = "close"
    BY <1>1, <1>2, PushLast DEF Endings
  <2> HIDE DEF r, n, e
  <2>5. mode = "project" =>
          /\ s \in Seq(Frames) /\ InOrder(s, mode) /\ Handling(s)
          /\ \A f : AtHead(s, f) <=> f = "stopServer"
    BY <2>2, PushInner DEF Inner
  <2>6. mode = "host" =>
          /\ d \in Seq(Frames) /\ InOrder(d, mode) /\ Handling(d)
          /\ \A f : AtHead(d, f) <=> f = "disconnect"
    BY <2>3, PushInner DEF Inner
  <2>7. /\ f1 \in Seq(Frames) /\ InOrder(f1, mode) /\ Handling(f1)
        /\ \A f : AtHead(f1, f) <=> f = "stopServer"
    BY <2>4, PushInner DEF Inner
  <2> HIDE DEF s, d, f1
  <2>8. /\ f2 \in Seq(Frames) /\ InOrder(f2, mode) /\ Handling(f2)
        /\ \A f : AtHead(f2, f) <=> f = "disconnect"
    BY <2>7, PushInner DEF Inner
  <2> HIDE DEF f2
  <2>9. /\ \/ mode = "project" /\ calls' = s
           \/ mode = "host" /\ calls' = d
           \/ calls' = f2
        /\ UNCHANGED <<mode, window, reconnectTimer, restartTimer, closing,
                       socket, process, unstarted, astray>>
        /\ retry' = FALSE
    BY <1>7, <2>1 DEF PressButton, Handle
  <2>10. /\ calls' \in Seq(Frames) /\ InOrder(calls', mode)
         /\ Handling(calls') /\ ~AtHead(calls', "restart")
    BY <2>5, <2>6, <2>8, <2>9
  <2>11. QED
    BY <2>9, <2>10 DEF Resumes, Typed, Rearmed
<1>8. QED
  BY <1>4, <1>5, <1>6, <1>7

LEMMA ResumesNext == Resumes /\ [Next]_vars => Resumes'
<1> SUFFICES ASSUME Resumes, [Next]_vars PROVE Resumes'
  OBVIOUS
<1>1. CASE Next
  BY <1>1, ReturnsKeep, ButtonsKeep, ProcessKeeps, QuietEventsKeep,
     LoudEventsKeep DEF Next, Continue
<1>2. CASE UNCHANGED vars
  BY <1>2 DEF vars, windowvars, adaptorvars, buildvars, netvars, procvars,
              Resumes, Typed, Rearmed, Serves
<1>3. QED
  BY <1>1, <1>2

-----------------------------------------------------------------------------
(* What is shown                                                           *)

LEMMA SourcesNext == Sources /\ [Next]_vars => Sources'
<1> SUFFICES ASSUME Sources, [Next]_vars PROVE Sources'
  OBVIOUS
<1> USE DEF Sources, windowvars, adaptorvars, buildvars, netvars, procvars
<1>1. CASE Cleanup
  BY <1>1 DEF Cleanup, Detached
<1>2. CASE SocketConnected
  BY <1>2 DEF SocketConnected
<1>3. CASE StartProjectDownload
  BY <1>3 DEF StartProjectDownload, ProjectReady, ProjectEmpty,
              ProjectFailed, Attached
<1>4. CASE DownloadFinished
  BY <1>4 DEF DownloadFinished, ProjectReady, ProjectEmpty, ProjectFailed,
              Attached
<1>5. ASSUME UNCHANGED <<source, project>> PROVE Sources'
  BY <1>5
<1>6. CASE ProcessPendingEvents
  BY <1>5, <1>6 DEF ProcessPendingEvents
<1>7. CASE \/ ProcessNothing \/ AdaptorDisconnect \/ SelectView
           \/ SelectNothing \/ StopProcess \/ ConnectionErrorSlot
           \/ Disconnect \/ StopServer \/ Awaited \/ Restart \/ Reconnect
           \/ Close
  BY <1>5, <1>7 DEF ProcessNothing, AdaptorDisconnect, SelectView,
     SelectNothing, StopProcess, ConnectionErrorSlot, Disconnect, StopServer,
     Awaited, Restart, Reconnect, Close, ConnectToHost
<1>8. CASE \/ SocketError \/ SocketConnectionClosed \/ SocketReadyRead
           \/ EventTimer \/ ShutdownTimer \/ ServerReady \/ ServerExited
           \/ PressButton \/ PickView \/ CustomEvent \/ ReconnectTimer
           \/ RestartTimer
  BY <1>5, <1>8 DEF SocketError, SocketConnectionClosed, SocketReadyRead,
     EventTimer, ShutdownTimer, ServerReady, ServerExited, PressButton,
     PickView, CustomEvent, ReconnectTimer, RestartTimer, ConnectToHost
<1>9. CASE UNCHANGED vars
  BY <1>5, <1>9 DEF vars
<1>10. QED
  BY <1>1, <1>2, <1>3, <1>4, <1>6, <1>7, <1>8, <1>9 DEF Next, Continue

-----------------------------------------------------------------------------
(* Folds, by induction                                                     *)

\* Every set of numbers has a least one.
LEMMA LeastNatural ==
  ASSUME NEW T \in SUBSET Nat, T # {}
  PROVE  \E m \in T : \A n \in T : m <= n
<1> DEFINE R == {ss \in Nat \X Nat : ss[1] < ss[2]}
<1>1. IsWellFoundedOn(R, Nat)
  BY NatLessThanWellFounded, Zenon DEF OpToRel
<1>2. \A x, y \in Nat : y < x => <<y, x>> \in R
  OBVIOUS
<1> HIDE DEF R
<1>3. PICK x \in T : \A y \in T : ~(<<y, x>> \in R)
  BY <1>1, WFMin, Zenon
<1>4. \A y \in T : ~(y < x)
  BY <1>2, <1>3
<1>5. QED
  BY <1>4

LEMMA MaxIs ==
  ASSUME NEW m \in Nat, NEW x \in SUBSET (1 .. m), m \in x
  PROVE  Max(x) = m
<1>1. \A y \in x : m >= y
  OBVIOUS
<1>2. \A z \in x : (\A y \in x : z >= y) => z = m
  OBVIOUS
<1>3. QED
  BY <1>1, <1>2 DEF Max

\* How FoldLeft(s, q) goes through the first m messages of q.
Folds(g, s, q, m) ==
  g = [x \in SUBSET (1 .. m) |->
         IF x = {} THEN s ELSE Step(g[x \ {Max(x)}], q[Max(x)])]

\* The function by which a sequence is folded exists, by induction over the
\* length.
LEMMA FoldExists ==
  ASSUME NEW s, NEW q, NEW n \in Nat
  PROVE  \E g : Folds(g, s, q, n)
<1> DEFINE T == {m \in Nat : ~ \E g : Folds(g, s, q, m)}
<1> SUFFICES T = {}
  OBVIOUS
<1> SUFFICES ASSUME T # {} PROVE FALSE
  OBVIOUS
<1>1. PICK m \in T : \A k \in T : m <= k
  BY LeastNatural, Zenon
<1>2. CASE m = 0
  <2> DEFINE g == [x \in SUBSET {} |-> s]
  <2>1. 1 .. 0 = {}
    OBVIOUS
  <2>2. g = [x \in SUBSET {} |-> IF x = {} THEN s
                                 ELSE Step(g[x \ {Max(x)}], q[Max(x)])]
    OBVIOUS
  <2> HIDE DEF g
  <2>3. Folds(g, s, q, 0)
    BY <2>1, <2>2 DEF Folds
  <2>4. QED
    BY <1>2, <2>3, Zenon
<1>3. CASE m # 0
  <2>1. m \in Nat /\ m - 1 \in Nat /\ ~(m <= m - 1)
    BY <1>1, <1>3
  <2>2. m - 1 \notin T
    BY <1>1, <2>1, Zenon
  <2>3. PICK g : Folds(g, s, q, m - 1)
    BY <2>1, <2>2, Zenon
  <2> DEFINE h == [x \in SUBSET (1 .. m) |->
                     IF m \in x THEN Step(g[x \ {m}], q[m]) ELSE g[x]]
  <2>4. ASSUME NEW x \in SUBSET (1 .. m)
        PROVE  h[x] = IF x = {} THEN s ELSE Step(h[x \ {Max(x)}], q[Max(x)])
    <3>1. \A y \in SUBSET (1 .. m) : m \notin y => y \in SUBSET (1 .. (m - 1))
      BY <2>1
    <3>2. \A y \in SUBSET (1 .. (m - 1)) :
             g[y] = IF y = {} THEN s ELSE Step(g[y \ {Max(y)}], q[Max(y)])
      BY <2>3, Zenon DEF Folds
    <3>3. \A y \in SUBSET (1 .. m) :
             h[y] = IF m \in y THEN Step(g[y \ {m}], q[m]) ELSE g[y]
      BY Zenon
    <3> HIDE DEF h
    <3>4. CASE m \in x
      <4>1. Max(x) = m
        BY <3>4, <2>1, MaxIs, Zenon
      <4>2. x \ {m} \in SUBSET (1 .. m) /\ m \notin x \ {m} /\ x # {}
        BY <3>4
      <4>3. h[x \ {m}] = g[x \ {m}]
        BY <3>3, <4>2, Zenon
      <4>4. QED
        BY <3>3, <3>4, <4>1, <4>2, <4>3, Zenon
    <3>5. CASE m \notin x
      <4>1. h[x] = g[x]
        BY <3>3, <3>5, Zenon
      <4>2. x \ {Max(x)} \in SUBSET (1 .. m) /\ m \notin x \ {Max(x)}
        BY <3>5
      <4>3. h[x \ {Max(x)}] = g[x \ {Max(x)}]
        BY <3>3, <4>2, Zenon
      <4>4. QED
        BY <3>1, <3>2, <3>5, <4>1, <4>3, Zenon
    <3>6. QED
      BY <3>4, <3>5, Zenon
  <2>5. h = [x \in SUBSET (1 .. m) |-> h[x]]
    BY Zenon
  <2> HIDE DEF h
  <2>6. Folds(h, s, q, m)
    BY <2>4, <2>5, Zenon DEF Folds
  <2>7. QED
    BY <1>1, <2>6, Zenon
<1>4. QED
  BY <1>2, <1>3, Zenon

Folded(s, q) == FoldLeft(Step, s, q)

\* Folding Step takes one step per message.
LEMMA FoldSteps ==
  ASSUME NEW s, NEW q, NEW n \in Nat, DOMAIN q = 1 .. n
  PROVE  \E r : /\ r[0] = s
                /\ \A i \in 1 .. n : r[i] = Step(r[i - 1], q[i])
                /\ Folded(s, q) = r[n]
<1> DEFINE g == CHOOSE f : Folds(f, s, q, n)
           r == [i \in 0 .. n |-> g[1 .. i]]
<1>1. Folded(s, q) = g[1 .. n]
  BY Zenon DEF Folded, FoldLeft, MapThenFoldSet, Folds
<1>2. Folds(g, s, q, n)
  <2>1. \E f : Folds(f, s, q, n)
    BY FoldExists, Zenon
  <2>2. QED
    BY <2>1, Zenon
<1> HIDE DEF g
<1>3. \A x \in SUBSET (1 .. n) :
        g[x] = IF x = {} THEN s ELSE Step(g[x \ {Max(x)}], q[Max(x)])
  BY <1>2, Zenon DEF Folds
<1>4. r[0] = s
  <2>1. r[0] = g[1 .. 0] /\ 1 .. 0 = {}
    OBVIOUS
  <2>2. QED
    BY <2>1, <1>3
<1>5. ASSUME NEW i \in 1 .. n PROVE r[i] = Step(r[i - 1], q[i])
  <2>1. r[i] = g[1 .. i] /\ r[i - 1] = g[1 .. (i - 1)]
    OBVIOUS
  <2>2. /\ 1 .. i \in SUBSET (1 .. n) /\ 1 .. i # {} /\ i \in 1 .. i
        /\ i \in Nat /\ (1 .. i) \ {i} = 1 .. (i - 1)
    OBVIOUS
  <2>3. Max(1 .. i) = i
    BY <2>2, MaxIs
  <2> HIDE DEF r
  <2>4. g[1 .. i] = Step(g[(1 .. i) \ {i}], q[i])
    <3>1. g[1 .. i] = Step(g[(1 .. i) \ {Max(1 .. i)}], q[Max(1 .. i)])
      BY <1>3, <2>2
    <3>2. QED
      BY <2>3, <3>1
  <2>5. QED
    BY <2>1, <2>2, <2>4
<1>6. r[n] = g[1 .. n]
  OBVIOUS
<1> HIDE DEF r
<1>7. QED
  BY <1>1, <1>4, <1>5, <1>6, Zenon

-----------------------------------------------------------------------------
(* One step of a session, and a round of it                                *)

Heard == [there : BOOLEAN, diagram : FsmStates \cup {"failed"},
          st : SessionStates, queue : Seq(MessageTypes)]

Answers == MessageTypes \cup {""}

Views == {"view_selection_in_progress", "view_selected",
          "change_set_of_monitored_variables"}

\* The diagram leads nowhere else, and only a request for a view leads to one.
LEMMA Diagram ==
  ASSUME NEW d, NEW t \in MessageTypes, NEW e, Leads(d, t, e)
  PROVE  /\ e \in FsmStates
         /\ d \notin Views /\ t # "SELECT_VIEW" => e \notin Views
<1>1. Transitions = HookedTransitions \cup IgnoredTransitions
  BY DEF Transitions
<1>2. CASE <<d, t, e>> \in HookedTransitions
  <2>1. e \in FsmStates
    BY <1>2 DEF HookedTransitions, FsmStates
  <2>2. d \notin Views /\ t # "SELECT_VIEW" => e \notin Views
    BY <1>2 DEF HookedTransitions, Views
  <2>3. QED
    BY <2>1, <2>2
<1>3. CASE <<d, t, e>> \in IgnoredTransitions
  BY <1>3 DEF IgnoredTransitions, FsmStates, Views
<1>4. QED
  BY <1>1, <1>2, <1>3 DEF Leads

LEMMA Accepted ==
  ASSUME NEW d, NEW t, Accepts(d, t)
  PROVE  \E e \in FsmStates : Leads(d, t, e)
<1>1. PICK tr \in Transitions : tr[1] = d /\ tr[2] = t
  BY DEF Accepts
<1>2. CASE tr \in HookedTransitions
  BY <1>1, <1>2 DEF HookedTransitions, FsmStates, Leads
<1>3. CASE tr \in IgnoredTransitions
  BY <1>1, <1>3 DEF IgnoredTransitions, FsmStates, Leads
<1>4. QED
  BY <1>1, <1>2, <1>3 DEF Transitions

LEMMA HookedQuietly ==
  ASSUME NEW d, NEW t \in MessageTypes, Hooked(d, t),
         d \notin Views, t # "SELECT_VIEW"
  PROVE  t \in {"CONNECT", "CONNECTION_REFUSED", "DISCONNECT", "PROJECT_URL"}
<1>1. PICK tr \in HookedTransitions : tr[1] = d /\ tr[2] = t
  BY DEF Hooked
<1>2. QED
  BY <1>1 DEF HookedTransitions, Views

LEMMA StepTyped ==
  ASSUME NEW s \in Heard, NEW t \in MessageTypes
  PROVE  /\ Step(s, t) \in Heard
         /\ ~Viewing(s) /\ t # "SELECT_VIEW" => ~Viewing(Step(s, t))
<1>1. CASE Accepts(s.diagram, t)
  <2> DEFINE e == CHOOSE d \in FsmStates : Leads(s.diagram, t, d)
             f == IF Hooked(s.diagram, t) THEN StateAfterHook(t) ELSE s.st
  <2>1. e \in FsmStates /\ Leads(s.diagram, t, e)
    BY <1>1, Accepted
  <2>2. Step(s, t) = [s EXCEPT !.diagram = e, !.st = f]
    BY <1>1 DEF Step
  <2>3. f \in SessionStates
    BY DEF Heard, StateAfterHook, SessionStates
  <2> HIDE DEF e, f
  <2>4. /\ Step(s, t) \in Heard
        /\ Step(s, t).diagram = e /\ Step(s, t).st = f
    BY <2>1, <2>2, <2>3 DEF Heard
  <2>5. ASSUME ~Viewing(s), t # "SELECT_VIEW" PROVE ~Viewing(Step(s, t))
    <3>1. s.diagram \notin Views
      BY <2>5 DEF Viewing, Views
    <3>2. e \notin Views
      BY <2>1, <2>5, <3>1, Diagram
    <3>3. f \notin {"VIEW_SELECTION_IN_PROGRESS", "VIEW_SELECTED"}
      <4>1. CASE Hooked(s.diagram, t)
        <5>1. t \in {"CONNECT", "CONNECTION_REFUSED", "DISCONNECT",
                      "PROJECT_URL"}
          BY <2>5, <3>1, <4>1, HookedQuietly
        <5>2. f = StateAfterHook(t)
          BY <4>1 DEF f
        <5>3. QED
          BY <5>1, <5>2 DEF StateAfterHook
      <4>2. CASE ~Hooked(s.diagram, t)
        BY <2>5, <4>2 DEF f, Viewing
      <4>3. QED
        BY <4>1, <4>2
    <3>4. QED
      BY <2>4, <3>2, <3>3 DEF Viewing, Views
  <2>6. QED
    BY <2>4, <2>5
<1>2. CASE ~Accepts(s.diagram, t)
  <2>1. Step(s, t) = [s EXCEPT !.diagram = "failed"]
    BY <1>2 DEF Step
  <2>2. /\ Step(s, t) \in Heard
        /\ Step(s, t).diagram = "failed" /\ Step(s, t).st = s.st
    BY <2>1 DEF Heard
  <2>3. QED
    BY <2>2 DEF Viewing
<1>3. QED
  BY <1>1, <1>2

LEMMA FoldTyped ==
  ASSUME NEW s \in Heard, NEW q \in Seq(MessageTypes)
  PROVE  /\ Folded(s, q) \in Heard
         /\ ~Viewing(s) /\ ~Asks(q) => ~Viewing(Folded(s, q))
<1> DEFINE n == Len(q)
<1>1. n \in Nat /\ DOMAIN q = 1 .. n /\ \A i \in 1 .. n : q[i] \in MessageTypes
  OBVIOUS
<1> HIDE DEF n
<1>2. PICK r : /\ r[0] = s
               /\ \A i \in 1 .. n : r[i] = Step(r[i - 1], q[i])
               /\ Folded(s, q) = r[n]
  <2>1. \E r : /\ r[0] = s
               /\ \A i \in 1 .. n : r[i] = Step(r[i - 1], q[i])
               /\ Folded(s, q) = r[n]
    BY <1>1, FoldSteps
  <2>2. QED
    BY <2>1, Zenon
<1> DEFINE Good(x) == /\ x \in Heard
                      /\ ~Viewing(s) /\ ~Asks(q) => ~Viewing(x)
           T == {i \in Nat : i <= n /\ ~Good(r[i])}
<1>3. T = {}
  <2> SUFFICES ASSUME T # {} PROVE FALSE
    OBVIOUS
  <2>1. PICK m \in T : \A k \in T : m <= k
    BY LeastNatural, Zenon
  <2>2. m # 0
    BY <1>2
  <2>3. /\ m \in 1 .. n /\ m - 1 \in Nat /\ m - 1 <= n /\ ~(m <= m - 1)
    BY <1>1, <2>1, <2>2
  <2>4. Good(r[m - 1])
    BY <2>1, <2>3, Zenon
  <2>5. /\ r[m] = Step(r[m - 1], q[m]) /\ q[m] \in MessageTypes
        /\ ~Asks(q) => q[m] # "SELECT_VIEW"
    BY <1>1, <1>2, <2>3, Zenon DEF Asks
  <2>6. /\ Step(r[m - 1], q[m]) \in Heard
        /\ ~Viewing(r[m - 1]) /\ q[m] # "SELECT_VIEW" =>
             ~Viewing(Step(r[m - 1], q[m]))
    BY <2>4, <2>5, StepTyped, Zenon
  <2>7. Good(r[m])
    BY <2>4, <2>5, <2>6, Zenon
  <2>8. QED
    BY <2>1, <2>7, Zenon
<1>4. Good(r[n])
  BY <1>1, <1>3
<1>5. QED
  BY <1>2, <1>4, Zenon

LEMMA EmptyRest ==
  ASSUME NEW w \in Heard, NEW p, p = [w EXCEPT !.queue = <<>>]
  PROVE  /\ p \in Heard /\ p.diagram = w.diagram /\ p.st = w.st
         /\ p.queue = <<>>
<1>1. /\ w.there \in BOOLEAN /\ w.diagram \in FsmStates \cup {"failed"}
      /\ w.st \in SessionStates
      /\ DOMAIN w = {"there", "diagram", "st", "queue"}
  BY DEF Heard
<1>2. p = [there |-> w.there, diagram |-> w.diagram, st |-> w.st,
           queue |-> <<>>]
  BY <1>1
<1>3. <<>> \in Seq(MessageTypes)
  OBVIOUS
<1>4. QED
  BY <1>1, <1>2, <1>3 DEF Heard

LEMMA QueueTyped ==
  ASSUME NEW q \in Seq(MessageTypes),
         NEW queue \in {q, Append(q, "MODIFY_VARIABLES")}
  PROVE  /\ queue \in Seq(MessageTypes)
         /\ ~Asks(q) => ~Asks(queue)
<1>1. "MODIFY_VARIABLES" \in MessageTypes
  BY DEF MessageTypes
<1>2. CASE queue = Append(q, "MODIFY_VARIABLES")
  <2>1. /\ queue \in Seq(MessageTypes)
        /\ \A i \in DOMAIN queue :
             queue[i] = "MODIFY_VARIABLES" \/ (i \in DOMAIN q /\ queue[i] = q[i])
    BY <1>1, <1>2
  <2>2. QED
    BY <2>1 DEF Asks
<1>3. QED
  BY <1>2

\* What a round of the session leaves: without a request in the queue or in
\* what was received it does not come to a view.
LEMMA ProcessedTyped ==
  ASSUME NEW s \in Heard, NEW received \in Answers,
         NEW modified \in BOOLEAN
  PROVE  /\ Processed(s, received, modified) \in Heard
         /\ Processed(s, received, modified).queue = <<>>
         /\ ~Viewing(s) /\ ~Asks(s.queue) /\ received # "SELECT_VIEW" =>
              ~Viewing(Processed(s, received, modified))
<1> DEFINE queue == IF modified THEN Append(s.queue, "MODIFY_VARIABLES")
                    ELSE s.queue
           heard == IF received = "" THEN s ELSE Step(s, received)
           whole == Folded(heard, queue)
           p     == Processed(s, received, modified)
<1>1. p = [whole EXCEPT !.queue = <<>>]
  BY Zenon DEF Processed, Folded
<1>2. queue \in {s.queue, Append(s.queue, "MODIFY_VARIABLES")}
  BY Zenon
<1> HIDE DEF queue, whole, p
<1>3. s.queue \in Seq(MessageTypes)
  BY DEF Heard
<1>4. /\ queue \in Seq(MessageTypes)
      /\ ~Asks(s.queue) => ~Asks(queue)
  BY <1>2, <1>3, QueueTyped, Zenon
<1>5. /\ heard \in Heard
      /\ ~Viewing(s) /\ received # "SELECT_VIEW" => ~Viewing(heard)
  <2>1. received # "" => received \in MessageTypes
    BY Zenon DEF Answers
  <2>2. QED
    BY <2>1, StepTyped, Zenon
<1> HIDE DEF heard
<1>6. /\ whole \in Heard
      /\ ~Viewing(heard) /\ ~Asks(queue) => ~Viewing(whole)
  BY <1>4, <1>5, FoldTyped, Zenon DEF whole
<1>7. /\ p \in Heard /\ p.diagram = whole.diagram /\ p.st = whole.st
      /\ p.queue = <<>>
  BY <1>1, <1>6, EmptyRest
<1>8. ~Viewing(whole) => ~Viewing(p)
  BY <1>7, Zenon DEF Viewing
<1>9. QED
  BY <1>4, <1>5, <1>6, <1>7, <1>8, Zenon DEF p

-----------------------------------------------------------------------------
(* The types                                                               *)

Sessions == [there : BOOLEAN, diagram : FsmStates,
             st : SessionStates, queue : Seq(MessageTypes)]

\* The handlers call, in calls, and never forget that one view at most is
\* being selected.
Plain    == Frames \ {"select"}
Quiet(c) == \A i \in DOMAIN c : c[i] # "select"
Once(c)  == \A i \in DOMAIN c : c[i] = "select" => i = 1

LEMMA QuietTail ==
  ASSUME NEW c \in Seq(Frames), c # <<>>, Once(c)
  PROVE  Tail(c) \in Seq(Frames) /\ Quiet(Tail(c))
<1>1. /\ Tail(c) \in Seq(Frames)
      /\ \A i \in DOMAIN Tail(c) : i + 1 \in DOMAIN c /\ i + 1 # 1
                                   /\ Tail(c)[i] = c[i + 1]
  OBVIOUS
<1>2. QED
  BY <1>1 DEF Quiet, Once

LEMMA QuietPut ==
  ASSUME NEW c \in Seq(Frames), Quiet(c), NEW fs \in Seq(Plain)
  PROVE  fs \o c \in Seq(Frames) /\ Quiet(fs \o c)
<1>1. fs \in Seq(Frames) /\ \A i \in DOMAIN fs : fs[i] # "select"
  BY DEF Plain
<1>2. fs \o c \in Seq(Frames)
  BY <1>1
<1>3. ASSUME NEW i \in DOMAIN (fs \o c) PROVE (fs \o c)[i] # "select"
  <2>1. CASE i <= Len(fs)
    <3>1. (fs \o c)[i] = fs[i] /\ i \in DOMAIN fs
      BY <1>1, <2>1
    <3>2. QED
      BY <1>1, <3>1
  <2>2. CASE i > Len(fs)
    <3>1. (fs \o c)[i] = c[i - Len(fs)] /\ i - Len(fs) \in DOMAIN c
      BY <1>1, <2>2
    <3>2. QED
      BY <3>1 DEF Quiet
  <2>3. QED
    BY <2>1, <2>2, <1>1, <1>2
<1>4. QED
  BY <1>2, <1>3 DEF Quiet

LEMMA OncePut ==
  ASSUME NEW c \in Seq(Frames), Quiet(c)
  PROVE  <<"select">> \o c \in Seq(Frames) /\ Once(<<"select">> \o c)
<1>1. "select" \in Frames
  BY DEF Frames
<1>2. /\ <<"select">> \o c \in Seq(Frames)
      /\ \A i \in DOMAIN (<<"select">> \o c) :
           i = 1 \/ (i - 1 \in DOMAIN c /\ (<<"select">> \o c)[i] = c[i - 1])
  BY <1>1
<1>3. QED
  BY <1>2 DEF Quiet, Once

LEMMA QuietOnce ==
  ASSUME NEW c \in Seq(Frames), Quiet(c)
  PROVE  Once(c) /\ ~AtHead(c, "select")
<1>1. c # <<>> => 1 \in DOMAIN c /\ Head(c) = c[1]
  OBVIOUS
<1>2. QED
  BY <1>1 DEF Quiet, Once, AtHead

LEMMA OnceQuiet ==
  ASSUME NEW c \in Seq(Frames), Once(c), ~AtHead(c, "select")
  PROVE  Quiet(c)
<1>1. \A i \in DOMAIN c : c # <<>> /\ Head(c) = c[1]
  OBVIOUS
<1>2. QED
  BY <1>1 DEF Quiet, Once, AtHead

LEMMA ShortSeqs ==
  ASSUME NEW S
  PROVE  /\ <<>> \in Seq(S)
         /\ \A x \in S : <<x>> \in Seq(S)
         /\ \A x, y \in S : <<x, y>> \in Seq(S)
         /\ \A x, y, z \in S : <<x, y, z>> \in Seq(S)
OBVIOUS

\* What an action that goes on with a handler makes of calls, and one that
\* starts a handler.
GoesOn  == /\ calls # <<>>
           /\ \/ calls' = <<>>
              \/ \E fs \in Seq(Plain) : calls' = fs \o Tail(calls)
Starts  == Listening /\ \E fs \in Seq(Plain) : calls' = fs \o calls
Selects == /\ Listening /\ calls' = <<"select">> \o calls
           /\ \/ source' = Attached /\ UNCHANGED session
              \/ "empty" \in astray'
              \/ PickView

LEMMA PlainNames ==
  /\ "process" \in Plain /\ "cleanup" \in Plain /\ "hardCleanup" \in Plain
  /\ "error" \in Plain /\ "disconnect" \in Plain
  /\ "adaptorDisconnect" \in Plain /\ "stopServer" \in Plain
  /\ "stopProcess" \in Plain /\ "await" \in Plain /\ "restart" \in Plain
  /\ "reconnect" \in Plain /\ "close" \in Plain
BY DEF Plain, Frames

LEMMA ContinueCalls ==
  ASSUME calls \in Seq(Frames), Continue
  PROVE  GoesOn
<1>1. ASSUME Return, calls # <<>> PROVE GoesOn
  <2>1. calls' = <<>> \o Tail(calls)
    <3>1. Tail(calls) \in Seq(Frames)
      BY <1>1
    <3>2. QED
      BY <1>1, <3>1 DEF Return
  <2>2. QED
    BY <1>1, <2>1, ShortSeqs, Zenon DEF GoesOn
<1>2. ASSUME NEW fs \in Seq(Plain), calls # <<>>, ReturnInto(fs) PROVE GoesOn
  BY <1>2, Zenon DEF ReturnInto, GoesOn
<1>3. CASE ProcessNothing \/ Cleanup \/ StopProcess \/ ConnectionErrorSlot
           \/ Awaited \/ Restart \/ Reconnect \/ Close
  BY <1>1, <1>3, Zenon DEF ProcessNothing, Cleanup, StopProcess,
     ConnectionErrorSlot, Awaited, Restart, Reconnect, Close, Calling
<1>4. CASE ProcessPendingEvents
  <2>1. calls # <<>> /\ (Return \/ ReturnInto(<<"error", "hardCleanup">>))
    BY <1>4, Zenon DEF ProcessPendingEvents, Calling
  <2>2. QED
    BY <1>1, <1>2, <2>1, ShortSeqs, PlainNames, Zenon
<1>5. CASE AdaptorDisconnect
  <2>1. calls # <<>> /\ (ReturnInto(<<"cleanup">>) \/
                         ReturnInto(<<"process", "cleanup">>))
    BY <1>5, Zenon DEF AdaptorDisconnect, Calling
  <2>2. QED
    BY <1>2, <2>1, ShortSeqs, PlainNames, Zenon
<1>6. CASE SelectView
  <2>1. calls # <<>> /\ ReturnInto(<<"process">>)
    BY <1>6, Zenon DEF SelectView, Calling
  <2>2. QED
    BY <1>2, <2>1, ShortSeqs, PlainNames, Zenon
<1>7. CASE Disconnect
  <2>1. calls # <<>> /\ (ReturnInto(<<>>) \/
                         ReturnInto(<<"adaptorDisconnect">>))
    BY <1>7, Zenon DEF Disconnect, Calling
  <2>2. QED
    BY <1>2, <2>1, ShortSeqs, PlainNames, Zenon
<1>8. CASE StopServer
  <2>1. calls # <<>> /\ ReturnInto(<<"disconnect", "stopProcess", "await">>)
    BY <1>8, Zenon DEF StopServer, Calling
  <2>2. QED
    BY <1>2, <2>1, ShortSeqs, PlainNames, Zenon
<1>9. CASE SelectNothing
  BY <1>9, Zenon DEF SelectNothing, Calling, GoesOn
<1>10. QED
  BY <1>3, <1>4, <1>5, <1>6, <1>7, <1>8, <1>9, Zenon DEF Continue

\* The events, in an order of their own: those that leave calls alone, those
\* that start a handler, those that select a view.
LEMMA EventCalls ==
  ASSUME Next, ~Continue
  PROVE  Listening /\ (UNCHANGED calls \/ Starts \/ Selects)
<1>1. ASSUME NEW fs \in Seq(Plain), Listening, Handle(fs) PROVE Starts
  BY <1>1, Zenon DEF Handle, Starts
<1>2. CASE SocketConnected \/ SocketReadyRead \/ ShutdownTimer \/ ServerReady
           \/ ServerExited \/ ReconnectTimer \/ RestartTimer
  BY <1>2, Zenon DEF SocketConnected, SocketReadyRead, ShutdownTimer,
     ServerReady, ServerExited, ReconnectTimer, RestartTimer
<1>3. CASE SocketError
  <2>1. Listening /\ Handle(<<"error", "hardCleanup">>)
    BY <1>3, Zenon DEF SocketError
  <2>2. QED
    BY <1>1, <2>1, ShortSeqs, PlainNames, Zenon
<1>4. CASE SocketConnectionClosed
  <2>1. Listening /\ (Handle(<<>>) \/ Handle(<<"error">>))
    BY <1>4, Zenon DEF SocketConnectionClosed
  <2>2. QED
    BY <1>1, <2>1, ShortSeqs, PlainNames, Zenon
<1>5. CASE EventTimer \/ CustomEvent
  <2>1. Listening /\ Handle(<<"process">>)
    BY <1>5, Zenon DEF EventTimer, CustomEvent
  <2>2. QED
    BY <1>1, <2>1, ShortSeqs, PlainNames, Zenon
<1>6. CASE PressButton
  <2>1. /\ Listening
        /\ \/ Handle(<<"stopServer", "restart">>)
           \/ Handle(<<"disconnect", "reconnect">>)
           \/ Handle(<<"disconnect", "stopServer", "close">>)
    BY <1>6, Zenon DEF PressButton
  <2>2. QED
    BY <1>1, <2>1, ShortSeqs, PlainNames, Zenon
<1>7. CASE StartProjectDownload \/ DownloadFinished
  <2>1. /\ Listening
        /\ \/ UNCHANGED calls
           \/ Handle(<<"hardCleanup">>)
           \/ Handle(<<"select">>) /\ source' = Attached /\ UNCHANGED session
           \/ Handle(<<"select">>) /\ astray' = astray \cup {"empty"}
    BY <1>7, Zenon DEF StartProjectDownload, DownloadDue, DownloadFinished,
       ProjectReady, ProjectEmpty, ProjectFailed
  <2>2. QED
    <3>1. "empty" \in astray \cup {"empty"}
      OBVIOUS
    <3>2. QED
      BY <1>1, <2>1, <3>1, ShortSeqs, PlainNames, Zenon DEF Handle, Selects
<1>8. CASE PickView
  BY <1>8, Zenon DEF PickView, Handle, Selects
<1>9. QED
  BY <1>2, <1>3, <1>4, <1>5, <1>6, <1>7, <1>8, Zenon DEF Next

LEMMA CallsNext ==
  ASSUME calls \in Seq(Frames), Once(calls), Next
  PROVE  /\ calls' \in Seq(Frames) /\ Once(calls')
         /\ AtHead(calls', "select") => Selects
<1>1. CASE Continue
  <2>1. CASE calls' = <<>>
    BY <2>1 DEF Once, AtHead
  <2>2. CASE calls' # <<>>
    <3>1. PICK fs \in Seq(Plain) : calls # <<>> /\ calls' = fs \o Tail(calls)
      BY <1>1, <2>2, ContinueCalls, Zenon DEF GoesOn
    <3>2. QED
      BY <3>1, QuietTail, QuietPut, QuietOnce, Zenon
  <2>3. QED
    BY <2>1, <2>2
<1>2. CASE ~Continue
  <2>1. Listening /\ (UNCHANGED calls \/ Starts \/ Selects)
    BY <1>2, EventCalls, Zenon
  <2>2. ~AtHead(calls, "select")
    BY <2>1, Delivered DEF Frames
  <2>3. Quiet(calls)
    BY <2>2, OnceQuiet, Zenon
  <2>4. CASE Starts
    BY <2>3, <2>4, QuietPut, QuietOnce, Zenon DEF Starts
  <2>5. CASE Selects
    BY <2>3, <2>5, OncePut, Zenon DEF Selects
  <2>6. QED
    BY <2>1, <2>2, <2>4, <2>5, Zenon
<1>3. QED
  BY <1>1, <1>2

LEMMA AsksNot ==
  ASSUME NEW q \in Seq(MessageTypes), NEW x \in Seq(MessageTypes), ~Asks(x)
  PROVE  q \o x \in Seq(MessageTypes) /\ (~Asks(q) => ~Asks(q \o x))
<1>1. /\ q \o x \in Seq(MessageTypes)
      /\ \A i \in DOMAIN (q \o x) :
           \/ i \in DOMAIN q /\ (q \o x)[i] = q[i]
           \/ i - Len(q) \in DOMAIN x /\ (q \o x)[i] = x[i - Len(q)]
  OBVIOUS
<1>2. QED
  BY <1>1 DEF Asks

LEMMA Queued ==
  ASSUME NEW s \in Sessions, NEW x \in Seq(MessageTypes)
  PROVE  LET p == [s EXCEPT !.queue = @ \o x] IN
         /\ p \in Sessions /\ p.there = s.there /\ p.diagram = s.diagram
         /\ p.st = s.st /\ p.queue = s.queue \o x
<1> DEFINE q == s.queue \o x
<1>1. s.queue \in Seq(MessageTypes) /\ q \in Seq(MessageTypes)
  BY DEF Sessions
<1> HIDE DEF q
<1>2. /\ [s EXCEPT !.queue = q] \in Sessions
      /\ [s EXCEPT !.queue = q].there = s.there
      /\ [s EXCEPT !.queue = q].diagram = s.diagram
      /\ [s EXCEPT !.queue = q].st = s.st
      /\ [s EXCEPT !.queue = q].queue = q
  BY <1>1 DEF Sessions
<1>3. [s EXCEPT !.queue = @ \o x] = [s EXCEPT !.queue = q]
  BY DEF q
<1>4. QED
  BY <1>2, <1>3 DEF q

\* What is put into the queue when the adaptor disconnects, and when a view
\* is selected.
Farewell(x) == {<<>>, <<x>>}
Requests == {<<"UNSELECT_VIEW", "SELECT_VIEW">>, <<"SELECT_VIEW">>}

LEMMA Farewells ==
  ASSUME NEW s \in Sessions, NEW x \in Farewell("UNSELECT_VIEW"),
         NEW y \in Farewell("DISCONNECT")
  PROVE  LET p == [s EXCEPT !.queue = @ \o x \o y] IN
         /\ p \in Sessions /\ p.there = s.there /\ p.diagram = s.diagram
         /\ p.st = s.st /\ (~Asks(s.queue) => ~Asks(p.queue))
<1> DEFINE q == s.queue \o x
           p == [s EXCEPT !.queue = @ \o x]
<1>1. /\ x \in Seq(MessageTypes) /\ ~Asks(x)
      /\ y \in Seq(MessageTypes) /\ ~Asks(y)
  <2>1. "UNSELECT_VIEW" \in MessageTypes /\ "DISCONNECT" \in MessageTypes
    BY DEF MessageTypes
  <2>2. /\ x = <<>> \/ x = <<"UNSELECT_VIEW">>
        /\ y = <<>> \/ y = <<"DISCONNECT">>
    BY DEF Farewell
  <2>3. x \in Seq(MessageTypes) /\ y \in Seq(MessageTypes)
    BY <2>1, <2>2, ShortSeqs, Zenon
  <2>4. ~Asks(x)
    BY <2>2 DEF Asks
  <2>5. ~Asks(y)
    BY <2>2 DEF Asks
  <2>6. QED
    BY <2>3, <2>4, <2>5
<1>2. /\ p \in Sessions /\ p.there = s.there /\ p.diagram = s.diagram
      /\ p.st = s.st /\ p.queue = q
  BY <1>1, Queued
<1>3. [s EXCEPT !.queue = @ \o x \o y] = [p EXCEPT !.queue = @ \o y]
  BY <1>2 DEF Sessions
<1>4. s.queue \in Seq(MessageTypes)
  BY DEF Sessions
<1>5. q \in Seq(MessageTypes) /\ (~Asks(s.queue) => ~Asks(q))
  BY <1>1, <1>4, AsksNot
<1> HIDE DEF p, q
<1>6. /\ [p EXCEPT !.queue = @ \o y] \in Sessions
      /\ [p EXCEPT !.queue = @ \o y].there = p.there
      /\ [p EXCEPT !.queue = @ \o y].diagram = p.diagram
      /\ [p EXCEPT !.queue = @ \o y].st = p.st
      /\ [p EXCEPT !.queue = @ \o y].queue = q \o y
  BY <1>1, <1>2, Queued
<1>7. ~Asks(q) => ~Asks(q \o y)
  BY <1>1, <1>5, AsksNot
<1>8. QED
  BY <1>2, <1>3, <1>5, <1>6, <1>7

LEMMA RequestsTyped == Requests \subseteq Seq(MessageTypes)
<1>1. "UNSELECT_VIEW" \in MessageTypes /\ "SELECT_VIEW" \in MessageTypes
  BY DEF MessageTypes
<1>2. QED
  BY <1>1 DEF Requests

LEMMA Opened ==
  ASSUME NEW s, NEW no \in BOOLEAN,
         s = [there |-> no, diagram |-> "disconnected",
              st |-> "DISCONNECTED", queue |-> <<>>],
         NEW p, NEW yes \in BOOLEAN,
         p = [s EXCEPT !.there = yes, !.queue = <<"CONNECT">>]
  PROVE  /\ s \in Sessions /\ s.there = no /\ p \in Sessions
         /\ p.diagram = s.diagram /\ p.st = s.st /\ p.queue = <<"CONNECT">>
<1>1. /\ "disconnected" \in FsmStates /\ "DISCONNECTED" \in SessionStates
      /\ "CONNECT" \in MessageTypes
  BY DEF FsmStates, SessionStates, MessageTypes
<1>2. <<>> \in Seq(MessageTypes) /\ <<"CONNECT">> \in Seq(MessageTypes)
  BY <1>1
<1>3. QED
  BY <1>1, <1>2 DEF Sessions

LEMMA Fresh ==
  ASSUME NEW p, p.diagram = "disconnected", p.st = "DISCONNECTED",
         p.queue = <<"CONNECT">>
  PROVE  ~Viewing(p) /\ ~Asks(p.queue)
BY DEF Viewing, Asks

\* A session that is created shows nothing and asks for nothing.
LEMMA Begun ==
  LET p == [NoSession EXCEPT !.there = TRUE, !.queue = <<"CONNECT">>] IN
  /\ NoSession \in Sessions /\ NoSession.there = FALSE
  /\ p \in Sessions /\ ~Viewing(p) /\ ~Asks(p.queue)
<1> DEFINE p == [NoSession EXCEPT !.there = TRUE, !.queue = <<"CONNECT">>]
<1> DEFINE yes == TRUE
           no  == FALSE
<1>1. NoSession = [there |-> no, diagram |-> "disconnected",
                   st |-> "DISCONNECTED", queue |-> <<>>]
  BY Zenon DEF NoSession
<1>2. yes \in BOOLEAN /\ no \in BOOLEAN /\ no = FALSE
  BY Zenon
<1> HIDE DEF yes, no
<1>3. p = [NoSession EXCEPT !.there = yes, !.queue = <<"CONNECT">>]
  BY Zenon DEF yes
<1> HIDE DEF p
<1>4. /\ NoSession \in Sessions /\ NoSession.there = no /\ p \in Sessions
      /\ p.diagram = NoSession.diagram /\ p.st = NoSession.st
      /\ p.queue = <<"CONNECT">>
  BY <1>1, <1>2, <1>3, Opened, Zenon
<1>5. NoSession.diagram = "disconnected" /\ NoSession.st = "DISCONNECTED"
  BY <1>1, Zenon
<1>6. ~Viewing(p) /\ ~Asks(p.queue)
  BY <1>4, <1>5, Fresh, Zenon
<1>7. QED
  BY <1>2, <1>4, <1>6, Zenon DEF p

LEMMA EmptyAsks == ~Asks(<<>>)
BY DEF Asks

LEMMA Unfailed ==
  ASSUME NEW p \in Heard, p.diagram # "failed"
  PROVE  p \in Sessions
BY DEF Heard, Sessions

\* A round that does not fail leaves a session like any other.
LEMMA Round ==
  ASSUME NEW s \in Sessions, NEW received \in Answers,
         NEW modified \in BOOLEAN
  PROVE  LET p == Processed(s, received, modified) IN
         /\ p.diagram # "failed" => p \in Sessions
         /\ ~Viewing(s) /\ ~Asks(s.queue) /\ received # "SELECT_VIEW" =>
              ~Viewing(p) /\ ~Asks(p.queue)
<1> DEFINE p == Processed(s, received, modified)
<1>1. s \in Heard
  BY DEF Sessions, Heard
<1>2. /\ p \in Heard /\ p.queue = <<>>
      /\ ~Viewing(s) /\ ~Asks(s.queue) /\ received # "SELECT_VIEW" =>
           ~Viewing(p)
  BY <1>1, ProcessedTyped, Zenon
<1> HIDE DEF p
<1>3. p.diagram # "failed" => p \in Sessions
  BY <1>2, Unfailed, Zenon
<1>4. ~Asks(p.queue)
  BY <1>2, EmptyAsks, Zenon
<1>5. QED
  BY <1>2, <1>3, <1>4, Zenon DEF p

LEMMA Parting ==
  ASSUME AdaptorDisconnect
  PROVE  \E x \in Farewell("UNSELECT_VIEW"), y \in Farewell("DISCONNECT") :
           session' = [session EXCEPT !.queue = @ \o x \o y]
<1> DEFINE x == IF IsViewSelected(session.st) THEN <<"UNSELECT_VIEW">> ELSE <<>>
           y == IF IsAlive(session.st) THEN <<"DISCONNECT">> ELSE <<>>
<1>1. x \in Farewell("UNSELECT_VIEW") /\ y \in Farewell("DISCONNECT")
  BY Zenon DEF Farewell
<1>2. session' = [session EXCEPT !.queue = @ \o x \o y]
  BY Zenon DEF AdaptorDisconnect
<1> HIDE DEF x, y
<1>3. QED
  BY <1>1, <1>2, Zenon

LEMMA SessionNext ==
  ASSUME session \in Sessions, answer \in Answers, Next
  PROVE  session' \in Sessions
<1> USE DEF adaptorvars
<1>1. CASE ProcessPendingEvents
  <2>1. PICK modified \in BOOLEAN :
          \/ session' = session
          \/ /\ Processed(session, answer, modified).diagram # "failed"
             /\ session' = Processed(session, answer, modified)
    BY <1>1, Zenon DEF ProcessPendingEvents
  <2>2. QED
    BY <2>1, Round, Zenon
<1>2. CASE Cleanup
  BY <1>2, Begun, Zenon DEF Cleanup
<1>3. CASE AdaptorDisconnect
  <2>1. PICK x \in Farewell("UNSELECT_VIEW"), y \in Farewell("DISCONNECT") :
          session' = [session EXCEPT !.queue = @ \o x \o y]
    BY <1>3, Parting, Zenon
  <2>2. QED
    BY <2>1, Farewells, Zenon
<1>4. CASE SelectView
  <2>1. session' = session \/
        \E x \in Requests : session' = [session EXCEPT !.queue = @ \o x]
    BY <1>4, Zenon DEF SelectView, Requests
  <2>2. QED
    BY <2>1, RequestsTyped, Queued
<1>5. CASE SocketConnected
  BY <1>5, Begun, Zenon DEF SocketConnected
<1>6. CASE \/ ProcessNothing \/ SelectNothing \/ StopProcess
           \/ ConnectionErrorSlot \/ Disconnect \/ StopServer \/ Awaited
           \/ Restart \/ Reconnect \/ Close
  BY <1>6, Zenon DEF ProcessNothing, SelectNothing, StopProcess,
     ConnectionErrorSlot, Disconnect, StopServer, Awaited, Restart, Reconnect,
     Close
<1>7. CASE \/ SocketError \/ SocketConnectionClosed \/ SocketReadyRead
           \/ EventTimer \/ ShutdownTimer \/ ServerReady \/ ServerExited
           \/ PressButton \/ PickView \/ CustomEvent \/ ReconnectTimer
           \/ RestartTimer \/ StartProjectDownload \/ DownloadFinished
  BY <1>7, Zenon DEF SocketError, SocketConnectionClosed, SocketReadyRead,
     EventTimer, ShutdownTimer, ServerReady, ServerExited, PressButton,
     PickView, CustomEvent, ReconnectTimer, RestartTimer,
     StartProjectDownload, DownloadFinished
<1>8. QED
  BY <1>1, <1>2, <1>3, <1>4, <1>5, <1>6, <1>7, Zenon DEF Next, Continue

LEMMA Replies ==
  \A reply \in {<<"connection_in_progress", "PROJECT_URL">>,
                <<"view_selection_in_progress", "AVAILABLE_VARIABLES">>,
                <<"view_selected", "VARIABLE_VALUES">>} :
    reply[2] \in {"PROJECT_URL", "AVAILABLE_VARIABLES", "VARIABLE_VALUES"}
OBVIOUS

LEMMA AnswerNext ==
  ASSUME answer \in Answers, answer # "SELECT_VIEW", Next
  PROVE  answer' \in Answers /\ answer' # "SELECT_VIEW"
<1>1. answer' \in {answer, "", "PROJECT_URL", "AVAILABLE_VARIABLES",
                   "VARIABLE_VALUES"}
  <2> USE DEF netvars
  <2>1. CASE SocketReadyRead
    BY <2>1, Replies, Zenon DEF SocketReadyRead
  <2>2. CASE \/ ProcessNothing \/ ProcessPendingEvents \/ Cleanup
             \/ AdaptorDisconnect \/ SelectView \/ SelectNothing
             \/ StopProcess \/ ConnectionErrorSlot \/ Disconnect
             \/ StopServer \/ Awaited \/ Restart \/ Reconnect \/ Close
    BY <2>2, Zenon DEF ProcessNothing, ProcessPendingEvents, Cleanup,
       AdaptorDisconnect, SelectView, SelectNothing, StopProcess,
       ConnectionErrorSlot, Disconnect, StopServer, Awaited, Restart,
       Reconnect, Close, ConnectToHost
  <2>3. CASE \/ SocketConnected \/ SocketError \/ SocketConnectionClosed
             \/ EventTimer \/ ShutdownTimer \/ ServerReady \/ ServerExited
             \/ PressButton \/ PickView \/ CustomEvent \/ ReconnectTimer
             \/ RestartTimer \/ StartProjectDownload \/ DownloadFinished
    BY <2>3, Zenon DEF SocketConnected, SocketError, SocketConnectionClosed,
       EventTimer, ShutdownTimer, ServerReady, ServerExited, PressButton,
       PickView, CustomEvent, ReconnectTimer, RestartTimer,
       StartProjectDownload, DownloadFinished, ConnectToHost
  <2>4. QED
    BY <2>1, <2>2, <2>3, Zenon DEF Next, Continue
<1>2. /\ {"PROJECT_URL", "AVAILABLE_VARIABLES", "VARIABLE_VALUES"}
           \subseteq MessageTypes
      /\ "SELECT_VIEW" \notin {"PROJECT_URL", "AVAILABLE_VARIABLES",
                              "VARIABLE_VALUES"}
  BY Zenon DEF MessageTypes
<1>3. "" # "SELECT_VIEW"
  BY Zenon
<1>4. QED
  BY <1>1, <1>2, <1>3, Zenon DEF Answers

LEMMA NumbersNext ==
  ASSUME downloads \in Nat, Budget \in Nat, budget \in 0 .. Budget, Next
  PROVE  downloads' \in Nat /\ budget' \in 0 .. Budget
<1> USE DEF buildvars, Interference
<1>1. \/ downloads' = downloads \/ downloads' = downloads + 1
      \/ downloads > 0 /\ downloads' = downloads - 1
  <2>1. CASE ProcessPendingEvents
    BY <2>1, Zenon DEF ProcessPendingEvents
  <2>2. CASE StartProjectDownload
    BY <2>2, Zenon DEF StartProjectDownload, DownloadDue
  <2>3. CASE \/ ProcessNothing \/ Cleanup \/ AdaptorDisconnect \/ SelectView
             \/ SelectNothing \/ StopProcess \/ ConnectionErrorSlot
             \/ Disconnect \/ StopServer \/ Awaited \/ Restart \/ Reconnect
             \/ Close
    BY <2>3, Zenon DEF ProcessNothing, Cleanup, AdaptorDisconnect, SelectView,
       SelectNothing, StopProcess, ConnectionErrorSlot, Disconnect,
       StopServer, Awaited, Restart, Reconnect, Close
  <2>4. CASE \/ SocketConnected \/ SocketError \/ SocketConnectionClosed
             \/ SocketReadyRead \/ EventTimer \/ ShutdownTimer \/ ServerReady
             \/ ServerExited \/ PressButton \/ PickView \/ CustomEvent
             \/ ReconnectTimer \/ RestartTimer \/ DownloadFinished
    BY <2>4, Zenon DEF SocketConnected, SocketError, SocketConnectionClosed,
       SocketReadyRead, EventTimer, ShutdownTimer, ServerReady, ServerExited,
       PressButton, PickView, CustomEvent, ReconnectTimer, RestartTimer,
       DownloadFinished
  <2>5. QED
    BY <2>1, <2>2, <2>3, <2>4, Zenon DEF Next, Continue
<1>2. budget' = budget \/ (budget > 0 /\ budget' = budget - 1)
  <2>1. CASE \/ ProcessNothing \/ Cleanup \/ AdaptorDisconnect \/ SelectView
             \/ SelectNothing \/ StopProcess \/ ConnectionErrorSlot
             \/ Disconnect \/ StopServer \/ Awaited \/ Restart \/ Reconnect
             \/ Close
             \/ ProcessPendingEvents
    BY <2>1, Zenon DEF ProcessNothing, Cleanup, AdaptorDisconnect, SelectView,
       SelectNothing, StopProcess, ConnectionErrorSlot, Disconnect,
       StopServer, Awaited, Restart, Reconnect, Close, ProcessPendingEvents,
       StartProcess
  <2>2. CASE \/ SocketConnected \/ SocketError \/ SocketConnectionClosed
             \/ SocketReadyRead \/ EventTimer \/ ShutdownTimer \/ ServerReady
             \/ ServerExited \/ PressButton \/ PickView \/ CustomEvent
             \/ ReconnectTimer \/ RestartTimer
    BY <2>2, Zenon DEF SocketConnected, SocketError, SocketConnectionClosed,
       SocketReadyRead, EventTimer, ShutdownTimer, ServerReady, ServerExited,
       PressButton, PickView, CustomEvent, ReconnectTimer, RestartTimer,
       StartProcess
  <2>3. CASE StartProjectDownload \/ DownloadFinished
    BY <2>3, Zenon DEF StartProjectDownload, DownloadFinished, ProjectReady,
       ProjectEmpty
  <2>4. QED
    BY <2>1, <2>2, <2>3, Zenon DEF Next, Continue
<1>3. QED
  BY <1>1, <1>2

\* What takes one of a few values, part by part: the window, the adaptor, the
\* builder and the socket, the process, what went astray.
StateNames == {AdaptorStates[i] : i \in DOMAIN AdaptorStates}

WindowWords ==
  /\ mode \in Modes /\ window \in {"open", "closed"}
  /\ retry \in BOOLEAN /\ reconnectTimer \in BOOLEAN
  /\ restartTimer \in BOOLEAN /\ shown \in BOOLEAN

AdaptorWords ==
  /\ state \in StateNames
  /\ closing \in BOOLEAN /\ eventTimer \in BOOLEAN /\ url \in BOOLEAN
  /\ project \in BOOLEAN
  /\ source \in {"none", "current", "lost", "destroyed"}

NetWords ==
  /\ fetching \in BOOLEAN
  /\ socket \in {"idle", "connecting", "open", "closing"}

ProcWords ==
  /\ process \in {"off", "starting", "up"} /\ stdin \in BOOLEAN
  /\ shtimer \in BOOLEAN /\ slots \subseteq {"terminate", "kill"}
  /\ killed \in BOOLEAN /\ unstarted \in BOOLEAN

AstrayWords ==
  astray \subseteq {"failed", "empty", "late", "old", "early"}

LEMMA StatesNamed ==
  StateNames = {"Idle", "Connecting", "Connected", "DownloadingProject",
                "ProjectDownloaded", "SelectingView", "ViewSelected"}
<1>1. /\ DOMAIN AdaptorStates = 1 .. 7
      /\ AdaptorStates[1] = "Idle" /\ AdaptorStates[2] = "Connecting"
      /\ AdaptorStates[3] = "Connected"
      /\ AdaptorStates[4] = "DownloadingProject"
      /\ AdaptorStates[5] = "ProjectDownloaded"
      /\ AdaptorStates[6] = "SelectingView"
      /\ AdaptorStates[7] = "ViewSelected"
  BY DEF AdaptorStates
<1>2. QED
  BY <1>1 DEF StateNames

LEMMA WindowWordsNext ==
  ASSUME WindowWords, Next
  PROVE  WindowWords'
<1> USE DEF windowvars, adaptorvars, buildvars, netvars, procvars
<1>1. CASE ConnectionErrorSlot
  BY <1>1, Zenon DEF WindowWords, ConnectionErrorSlot
<1>2. CASE Disconnect
  BY <1>2, Zenon DEF WindowWords, Disconnect
<1>3. CASE StopServer
  BY <1>3, Zenon DEF WindowWords, StopServer
<1>4. CASE Restart
  BY <1>4, Zenon DEF WindowWords, Restart, StartProcess
<1>5. CASE Reconnect
  BY <1>5, Zenon DEF WindowWords, Reconnect, ConnectToHost
<1>6. CASE Close
  BY <1>6, Zenon DEF WindowWords, Close
<1>7. CASE SocketConnected
  BY <1>7, Zenon DEF WindowWords, SocketConnected
<1>8. CASE StartProjectDownload
  BY <1>8, Zenon DEF WindowWords, StartProjectDownload, ProjectReady,
     ProjectEmpty, ProjectFailed, Attached
<1>9. CASE DownloadFinished
  BY <1>9, Zenon DEF WindowWords, DownloadFinished, ProjectReady,
     ProjectEmpty, ProjectFailed, Attached
<1>10. CASE ServerReady
  BY <1>10, Zenon DEF WindowWords, ServerReady
<1>11. CASE ServerExited
  BY <1>11, Zenon DEF WindowWords, ServerExited
<1>12. CASE PressButton
  BY <1>12, Zenon DEF WindowWords, PressButton
<1>13. CASE ReconnectTimer
  BY <1>13, Zenon DEF WindowWords, ReconnectTimer, ConnectToHost
<1>14. CASE RestartTimer
  BY <1>14, Zenon DEF WindowWords, RestartTimer, StartProcess
<1>15. CASE \/ ProcessNothing \/ ProcessPendingEvents \/ Cleanup
           \/ AdaptorDisconnect \/ SelectView \/ SelectNothing
           \/ StopProcess \/ Awaited
  BY <1>15, Zenon DEF WindowWords, ProcessNothing, ProcessPendingEvents,
     Cleanup, AdaptorDisconnect, SelectView, SelectNothing, StopProcess,
     Awaited
<1>16. CASE \/ SocketError \/ SocketConnectionClosed \/ SocketReadyRead
           \/ EventTimer \/ ShutdownTimer \/ PickView \/ CustomEvent
  BY <1>16, Zenon DEF WindowWords, SocketError, SocketConnectionClosed,
     SocketReadyRead, EventTimer, ShutdownTimer, PickView, CustomEvent
<1>17. QED
  BY <1>1, <1>2, <1>3, <1>4, <1>5, <1>6, <1>7, <1>8, <1>9, <1>10, <1>11,
     <1>12, <1>13, <1>14, <1>15, <1>16, Zenon DEF Next, Continue

LEMMA AdaptorWordsNext ==
  ASSUME AdaptorWords, Next
  PROVE  AdaptorWords'
<1> USE DEF windowvars, adaptorvars, buildvars, netvars, procvars
<1>1. /\ StateNames' = StateNames
      /\ StateNames = {"Idle", "Connecting", "Connected",
                       "DownloadingProject", "ProjectDownloaded",
                       "SelectingView", "ViewSelected"}
  BY StatesNamed
<1>2. CASE ProcessPendingEvents
  BY <1>1, <1>2, Zenon DEF AdaptorWords, ProcessPendingEvents, NextState
<1>3. CASE Cleanup
  BY <1>1, <1>3, Zenon DEF AdaptorWords, Cleanup, Detached
<1>4. CASE AdaptorDisconnect
  BY <1>1, <1>4, Zenon DEF AdaptorWords, AdaptorDisconnect
<1>5. CASE SelectView
  BY <1>1, <1>5, Zenon DEF AdaptorWords, SelectView
<1>6. CASE Reconnect
  BY <1>1, <1>6, Zenon DEF AdaptorWords, Reconnect, ConnectToHost
<1>7. CASE SocketConnected
  BY <1>1, <1>7, Zenon DEF AdaptorWords, SocketConnected
<1>8. CASE SocketError
  BY <1>1, <1>8, Zenon DEF AdaptorWords, SocketError
<1>9. CASE SocketConnectionClosed
  BY <1>1, <1>9, Zenon DEF AdaptorWords, SocketConnectionClosed
<1>10. CASE SocketReadyRead
  BY <1>1, <1>10, Zenon DEF AdaptorWords, SocketReadyRead
<1>11. CASE EventTimer
  BY <1>1, <1>11, Zenon DEF AdaptorWords, EventTimer
<1>12. CASE StartProjectDownload
  BY <1>1, <1>12, Zenon DEF AdaptorWords, StartProjectDownload, ProjectReady,
     ProjectEmpty, ProjectFailed, Attached
<1>13. CASE DownloadFinished
  BY <1>1, <1>13, Zenon DEF AdaptorWords, DownloadFinished, ProjectReady,
     ProjectEmpty, ProjectFailed, Attached
<1>14. CASE ReconnectTimer
  BY <1>1, <1>14, Zenon DEF AdaptorWords, ReconnectTimer, ConnectToHost
<1>15. CASE \/ ProcessNothing \/ SelectNothing \/ StopProcess
           \/ ConnectionErrorSlot \/ Disconnect \/ StopServer \/ Awaited
           \/ Restart \/ Close
  BY <1>15, Zenon DEF AdaptorWords, ProcessNothing, SelectNothing, StopProcess,
     ConnectionErrorSlot, Disconnect, StopServer, Awaited, Restart, Close
<1>16. CASE \/ ShutdownTimer \/ ServerReady \/ ServerExited \/ PressButton
           \/ PickView \/ CustomEvent \/ RestartTimer
  BY <1>16, Zenon DEF AdaptorWords, ShutdownTimer, ServerReady, ServerExited,
     PressButton, PickView, CustomEvent, RestartTimer
<1>17. QED
  BY <1>1, <1>2, <1>3, <1>4, <1>5, <1>6, <1>7, <1>8, <1>9, <1>10, <1>11,
     <1>12, <1>13, <1>14, <1>15, <1>16, Zenon DEF Next, Continue

LEMMA NetWordsNext ==
  ASSUME NetWords, Next
  PROVE  NetWords'
<1> USE DEF windowvars, adaptorvars, buildvars, netvars, procvars
<1>1. CASE ProcessPendingEvents
  BY <1>1, Zenon DEF NetWords, ProcessPendingEvents, NextState
<1>2. CASE Cleanup
  BY <1>2, Zenon DEF NetWords, Cleanup, Detached
<1>3. CASE Reconnect
  BY <1>3, Zenon DEF NetWords, Reconnect, ConnectToHost
<1>4. CASE SocketConnected
  BY <1>4, Zenon DEF NetWords, SocketConnected
<1>5. CASE SocketError
  BY <1>5, Zenon DEF NetWords, SocketError
<1>6. CASE SocketConnectionClosed
  BY <1>6, Zenon DEF NetWords, SocketConnectionClosed
<1>7. CASE SocketReadyRead
  BY <1>7, Zenon DEF NetWords, SocketReadyRead
<1>8. CASE StartProjectDownload
  BY <1>8, Zenon DEF NetWords, StartProjectDownload, ProjectReady,
     ProjectEmpty, ProjectFailed, Attached
<1>9. CASE DownloadFinished
  BY <1>9, Zenon DEF NetWords, DownloadFinished, ProjectReady, ProjectEmpty,
     ProjectFailed, Attached
<1>10. CASE ReconnectTimer
  BY <1>10, Zenon DEF NetWords, ReconnectTimer, ConnectToHost
<1>11. CASE \/ ProcessNothing \/ AdaptorDisconnect \/ SelectView
           \/ SelectNothing \/ StopProcess \/ ConnectionErrorSlot
           \/ Disconnect \/ StopServer \/ Awaited \/ Restart
  BY <1>11, Zenon DEF NetWords, ProcessNothing, AdaptorDisconnect, SelectView,
     SelectNothing, StopProcess, ConnectionErrorSlot, Disconnect, StopServer,
     Awaited, Restart
<1>12. CASE \/ Close \/ EventTimer \/ ShutdownTimer \/ ServerReady
           \/ ServerExited \/ PressButton \/ PickView \/ CustomEvent
           \/ RestartTimer
  BY <1>12, Zenon DEF NetWords, Close, EventTimer, ShutdownTimer, ServerReady,
     ServerExited, PressButton, PickView, CustomEvent, RestartTimer
<1>13. QED
  BY <1>1, <1>2, <1>3, <1>4, <1>5, <1>6, <1>7, <1>8, <1>9, <1>10, <1>11,
     <1>12, Zenon DEF Next, Continue

LEMMA ProcWordsNext ==
  ASSUME ProcWords, Next
  PROVE  ProcWords'
<1> USE DEF windowvars, adaptorvars, buildvars, netvars, procvars
<1>1. CASE StopProcess
  BY <1>1, Zenon DEF ProcWords, StopProcess
<1>2. CASE Restart
  BY <1>2, Zenon DEF ProcWords, Restart, StartProcess
<1>3. CASE ShutdownTimer
  BY <1>3, Zenon DEF ProcWords, ShutdownTimer
<1>4. CASE ServerReady
  BY <1>4, Zenon DEF ProcWords, ServerReady
<1>5. CASE ServerExited
  BY <1>5, Zenon DEF ProcWords, ServerExited
<1>6. CASE RestartTimer
  BY <1>6, Zenon DEF ProcWords, RestartTimer, StartProcess
<1>7. CASE \/ ProcessNothing \/ ProcessPendingEvents \/ Cleanup
           \/ AdaptorDisconnect \/ SelectView \/ SelectNothing
           \/ ConnectionErrorSlot \/ Disconnect \/ StopServer \/ Awaited
           \/ Reconnect \/ Close
  BY <1>7, Zenon DEF ProcWords, ProcessNothing, ProcessPendingEvents, Cleanup,
     AdaptorDisconnect, SelectView, SelectNothing, ConnectionErrorSlot,
     Disconnect, StopServer, Awaited, Reconnect, Close
<1>8. CASE \/ SocketConnected \/ SocketError \/ SocketConnectionClosed
           \/ SocketReadyRead \/ EventTimer \/ StartProjectDownload
           \/ DownloadFinished \/ PressButton \/ PickView \/ CustomEvent
           \/ ReconnectTimer
  BY <1>8, Zenon DEF ProcWords, SocketConnected, SocketError,
     SocketConnectionClosed, SocketReadyRead, EventTimer,
     StartProjectDownload, DownloadFinished, PressButton, PickView,
     CustomEvent, ReconnectTimer
<1>9. QED
  BY <1>1, <1>2, <1>3, <1>4, <1>5, <1>6, <1>7, <1>8, Zenon DEF Next, Continue

LEMMA AstrayWordsNext ==
  ASSUME AstrayWords, Next
  PROVE  AstrayWords'
<1> USE DEF windowvars, adaptorvars, buildvars, netvars, procvars
<1>1. CASE ProcessPendingEvents
  BY <1>1, Zenon DEF AstrayWords, ProcessPendingEvents, NextState
<1>2. CASE Reconnect
  BY <1>2, Zenon DEF AstrayWords, Reconnect, ConnectToHost
<1>3. CASE StartProjectDownload
  BY <1>3, Zenon DEF AstrayWords, StartProjectDownload, ProjectReady,
     ProjectEmpty, ProjectFailed, Attached
<1>4. CASE DownloadFinished
  BY <1>4, Zenon DEF AstrayWords, DownloadFinished, ProjectReady,
     ProjectEmpty, ProjectFailed, Attached
<1>5. CASE PickView
  BY <1>5, Zenon DEF AstrayWords, PickView
<1>6. CASE ReconnectTimer
  BY <1>6, Zenon DEF AstrayWords, ReconnectTimer, ConnectToHost
<1>7. CASE \/ ProcessNothing \/ Cleanup \/ AdaptorDisconnect \/ SelectView
           \/ SelectNothing \/ StopProcess \/ ConnectionErrorSlot
           \/ Disconnect \/ StopServer \/ Awaited \/ Restart \/ Close
  BY <1>7, Zenon DEF AstrayWords, ProcessNothing, Cleanup, AdaptorDisconnect,
     SelectView, SelectNothing, StopProcess, ConnectionErrorSlot, Disconnect,
     StopServer, Awaited, Restart, Close
<1>8. CASE \/ SocketConnected \/ SocketError \/ SocketConnectionClosed
           \/ SocketReadyRead \/ EventTimer \/ ShutdownTimer \/ ServerReady
           \/ ServerExited \/ PressButton \/ CustomEvent \/ RestartTimer
  BY <1>8, Zenon DEF AstrayWords, SocketConnected, SocketError,
     SocketConnectionClosed, SocketReadyRead, EventTimer, ShutdownTimer,
     ServerReady, ServerExited, PressButton, CustomEvent, RestartTimer
<1>9. QED
  BY <1>1, <1>2, <1>3, <1>4, <1>5, <1>6, <1>7, <1>8, Zenon DEF Next, Continue

-----------------------------------------------------------------------------
(* The view that is selected is attached                                   *)

\* What Attaching says as long as nothing has gone astray, the calls aside.
Linked ==
  /\ socket = "connecting" =>
       state = "Connecting" /\ downloads = 0 /\ ~fetching
  /\ state \in {"SelectingView", "ViewSelected"} => source = "current"
  /\ socket = "open" /\ session.there =>
       source = "current" \/ (~Viewing(session) /\ ~Asks(session.queue))

\* A view is to be selected.
Chosen == socket = "open" /\ session.there /\ Calling("select")

LEMMA AttachingParts ==
  Attaching <=> /\ Once(calls) /\ answer # "SELECT_VIEW"
                /\ astray = {} => Linked
                /\ astray = {} => (Chosen => source = "current")
BY Zenon DEF Attaching, Once, Linked, Chosen

\* Whoever selects a view has attached the project before, or something has
\* gone astray.
LEMMA ChosenNext ==
  ASSUME calls \in Seq(Frames), Once(calls), Next, astray' = {}
  PROVE  Chosen' => source' = "current"
<1> SUFFICES ASSUME Chosen' PROVE source' = "current"
  OBVIOUS
<1>1. session'.there /\ AtHead(calls', "select")
  BY Zenon DEF Chosen, Calling, AtHead
<1>2. Selects
  BY <1>1, CallsNext, Zenon
<1>3. CASE source' = Attached /\ UNCHANGED session
  BY <1>1, <1>3, Zenon DEF Attached
<1>4. CASE PickView
  <2>1. /\ source' = source
        /\ astray' = IF project /\ source = "current" THEN astray
                     ELSE astray \cup {"early"}
    BY <1>4, Zenon DEF PickView, adaptorvars
  <2>2. QED
    BY <2>1
<1>5. CASE "empty" \in astray'
  BY <1>5
<1>6. QED
  BY <1>2, <1>3, <1>4, <1>5, Zenon DEF Selects

\* A round of the session.
LEMMA RoundLinked ==
  ASSUME session \in Sessions, answer \in Answers, answer # "SELECT_VIEW",
         astray = {} => Linked, ProcessPendingEvents, astray' = {}
  PROVE  Linked'
<1>1. PICK modified \in BOOLEAN :
        LET s == Processed(session, answer, modified) IN
        /\ modified => source = "current"
        /\ astray' = IF socket = "open" THEN astray ELSE astray \cup {"old"}
        /\ \/ session' = session /\ state' = state
           \/ session' = s /\ state' = NextState(s)
        /\ source' = source /\ socket' = socket
  BY Zenon DEF ProcessPendingEvents
<1> DEFINE p == Processed(session, answer, modified)
<1>2. astray = {} /\ socket = "open" /\ session.there
  <2>1. session.there
    BY Zenon DEF ProcessPendingEvents
  <2>2. QED
    BY <1>1, <2>1
<1>3. Linked
  BY <1>2
<1>4. CASE source = "current"
  BY <1>1, <1>2, <1>4, Zenon DEF Linked
<1>5. CASE source # "current"
  <2>1. /\ ~Viewing(session) /\ ~Asks(session.queue)
        /\ state \notin {"SelectingView", "ViewSelected"}
    BY <1>2, <1>3, <1>5, Zenon DEF Linked
  <2>2. ~Viewing(p) /\ ~Asks(p.queue)
    BY <2>1, Round, Zenon
  <2> HIDE DEF p
  <2>3. p.st \notin {"VIEW_SELECTION_IN_PROGRESS", "VIEW_SELECTED"}
    BY <2>2, Zenon DEF Viewing
  <2>4. NextState(p) \in {state, "Connected"}
    BY <2>3, Zenon DEF NextState, IsViewSelected
  <2>5. \/ session' = session /\ state' = state
        \/ session' = p /\ state' = NextState(p)
    BY <1>1, Zenon DEF p
  <2>6. state' \notin {"SelectingView", "ViewSelected"}
    BY <2>1, <2>4, <2>5, Zenon
  <2>7. ~Viewing(session') /\ ~Asks(session'.queue)
    BY <2>1, <2>2, <2>5, Zenon
  <2>8. socket' = "open"
    BY <1>1, <1>2, Zenon
  <2>9. QED
    BY <2>6, <2>7, <2>8, Zenon DEF Linked, Viewing, Asks
<1>6. QED
  BY <1>4, <1>5

\* A new attempt to connect finds no download of an earlier one.
LEMMA Anew ==
  ASSUME downloads \in Nat, astray' = {},
         astray' = IF fetching \/ downloads > 0 THEN {"late"} ELSE {},
         state' = "Connecting", socket' = "connecting",
         downloads' = downloads, fetching' = fetching
  PROVE  Linked'
<1>1. {"late"} # {}
  OBVIOUS
<1>2. ~fetching /\ ~(downloads > 0)
  BY <1>1, Zenon
<1>3. downloads = 0
  BY <1>2
<1>4. QED
  BY <1>2, <1>3, Zenon DEF Linked

LEMMA LinkedNext ==
  ASSUME session \in Sessions, answer \in Answers, answer # "SELECT_VIEW",
         downloads \in Nat, astray = {} => Linked,
         astray = {} => (Chosen => source = "current"),
         Next, astray' = {}
  PROVE  Linked'
<1> USE DEF windowvars, adaptorvars, buildvars, netvars, procvars
<1>1. CASE ProcessPendingEvents
  BY <1>1, RoundLinked, Zenon
<1>2. CASE Reconnect
  <2>1. /\ state' = "Connecting" /\ socket' = "connecting"
        /\ downloads' = downloads /\ fetching' = fetching
        /\ astray' = IF fetching \/ downloads > 0 THEN {"late"} ELSE {}
    BY <1>2, Zenon DEF Reconnect, ConnectToHost
  <2>2. QED
    BY <2>1, Anew, Zenon
<1>3. CASE ReconnectTimer
  <2>1. /\ state' = "Connecting" /\ socket' = "connecting"
        /\ downloads' = downloads /\ fetching' = fetching
        /\ astray' = IF fetching \/ downloads > 0 THEN {"late"} ELSE {}
    BY <1>3, Zenon DEF ReconnectTimer, ConnectToHost
  <2>2. QED
    BY <2>1, Anew, Zenon
<1>4. ASSUME UNCHANGED astray
      PROVE  astray = {} /\ Linked /\ (Chosen => source = "current")
  BY <1>4, Zenon
<1>5. ASSUME UNCHANGED <<state, source, session, downloads, fetching, socket>>,
             astray = {}
      PROVE  Linked'
  BY <1>5, Zenon DEF Linked, Viewing, Asks
<1>6. CASE Cleanup
  <2>1. socket' \in {"idle", "closing"} /\ state' = "Idle"
    BY <1>6, Zenon DEF Cleanup
  <2>2. QED
    BY <2>1 DEF Linked
<1>7. CASE AdaptorDisconnect
  <2>1. PICK x \in Farewell("UNSELECT_VIEW"), y \in Farewell("DISCONNECT") :
          session' = [session EXCEPT !.queue = @ \o x \o y]
    BY <1>7, Parting, Zenon
  <2>2. /\ session'.there = session.there
        /\ session'.diagram = session.diagram /\ session'.st = session.st
        /\ ~Asks(session.queue) => ~Asks(session'.queue)
    BY <2>1, Farewells, Zenon
  <2>3. UNCHANGED <<state, source, downloads, fetching, socket>>
    BY <1>7, Zenon DEF AdaptorDisconnect
  <2>4. Linked
    BY <1>4, <1>7, Zenon DEF AdaptorDisconnect
  <2>5. QED
    BY <2>2, <2>3, <2>4, Zenon DEF Linked, Viewing, Asks
<1>8. CASE SelectView
  <2>1. /\ UNCHANGED <<state, source, downloads, fetching, socket>>
        /\ Calling("select") /\ (~session.there => session' = session)
    BY <1>8, Zenon DEF SelectView
  <2>2. astray = {} /\ Linked /\ (Chosen => source = "current")
    BY <1>4, <1>8, Zenon DEF SelectView
  <2>3. QED
    BY <2>1, <2>2, Zenon DEF Linked, Chosen, Viewing, Asks
<1>9. CASE \/ ProcessNothing \/ SelectNothing \/ StopProcess
           \/ ConnectionErrorSlot \/ Disconnect \/ StopServer \/ Awaited
           \/ Restart \/ Close
  <2>1. UNCHANGED <<state, source, session, downloads, fetching, socket, astray>>
    BY <1>9, Zenon DEF ProcessNothing, SelectNothing, StopProcess,
       ConnectionErrorSlot, Disconnect, StopServer, Awaited, Restart, Close
  <2>2. QED
    BY <1>5, <2>1, Zenon
<1>10. CASE SocketConnected
  <2>1. /\ socket = "connecting" /\ socket' = "open" /\ state' = state
        /\ session' = [NoSession EXCEPT !.there = TRUE, !.queue = <<"CONNECT">>]
        /\ astray' = astray
    BY <1>10, Zenon DEF SocketConnected
  <2>2. state' = "Connecting"
    BY <2>1, Zenon DEF Linked
  <2>3. ~Viewing(session') /\ ~Asks(session'.queue)
    BY <2>1, Begun, Zenon
  <2>4. QED
    BY <2>1, <2>2, <2>3 DEF Linked, Viewing, Asks
<1>11. CASE SocketError \/ SocketConnectionClosed
  <2>1. socket' = "idle" /\ state' = "Idle"
    BY <1>11, Zenon DEF SocketError, SocketConnectionClosed
  <2>2. QED
    BY <2>1 DEF Linked
<1>12. CASE \/ SocketReadyRead \/ EventTimer \/ ShutdownTimer \/ ServerReady
            \/ ServerExited \/ PressButton \/ CustomEvent \/ RestartTimer
  <2>1. UNCHANGED <<state, source, session, downloads, fetching, socket, astray>>
    BY <1>12, Zenon DEF SocketReadyRead, EventTimer, ShutdownTimer,
       ServerReady, ServerExited, PressButton, CustomEvent, RestartTimer
  <2>2. QED
    BY <1>5, <2>1, Zenon
<1>13. CASE PickView
  <2>1. UNCHANGED <<state, source, session, downloads, fetching, socket>>
    BY <1>13, Zenon DEF PickView
  <2>2. astray = {}
    <3>1. astray' = astray \/ astray' = astray \cup {"early"}
      BY <1>13, Zenon DEF PickView
    <3>2. QED
      BY <3>1
  <2>3. QED
    BY <1>5, <2>1, <2>2, Zenon
<1>14. ASSUME \/ UNCHANGED <<source, astray>>
                 /\ state' = "DownloadingProject"
              \/ source' = Attached /\ astray' = astray
                 /\ state' = "ProjectDownloaded",
              UNCHANGED <<session, socket>>,
              downloads > 0 \/ fetching
       PROVE  Linked'
  <2>1. astray = {} /\ Linked
    BY <1>14, Zenon
  <2>2. socket' # "connecting"
    BY <1>14, <2>1 DEF Linked
  <2>3. state' \notin {"SelectingView", "ViewSelected"}
    BY <1>14
  <2>4. ASSUME session'.there, socket' = "open"
        PROVE  source' = "current" \/ (~Viewing(session') /\ ~Asks(session'.queue))
    <3>1. CASE source' = source
      BY <1>14, <2>1, <2>4, <3>1, Zenon DEF Linked, Viewing, Asks
    <3>2. CASE source' = Attached
      BY <1>14, <2>4, <3>2, Zenon DEF Attached
    <3>3. QED
      BY <1>14, <3>1, <3>2
  <2>5. QED
    BY <2>2, <2>3, <2>4, Zenon DEF Linked, Viewing, Asks
<1>15. /\ astray' # astray \cup {"failed"}
       /\ astray' # astray \cup {"empty"}
  OBVIOUS
<1>16. CASE StartProjectDownload
  BY <1>14, <1>15, <1>16, Zenon DEF StartProjectDownload, DownloadDue,
     ProjectReady, ProjectEmpty, ProjectFailed
<1>17. CASE DownloadFinished
  BY <1>14, <1>15, <1>17, Zenon DEF DownloadFinished, ProjectReady,
     ProjectEmpty, ProjectFailed
<1>18. QED
  BY <1>1, <1>2, <1>3, <1>6, <1>7, <1>8, <1>9, <1>10, <1>11, <1>12, <1>13,
     <1>16, <1>17, Zenon DEF Next, Continue

LEMMA TypeParts ==
  TypeOK <=> /\ WindowWords /\ AdaptorWords /\ NetWords /\ ProcWords
             /\ AstrayWords
             /\ calls \in Seq(Frames) /\ session \in Sessions
             /\ answer \in Answers
             /\ downloads \in Nat /\ budget \in 0 .. Budget
BY Zenon DEF TypeOK, WindowWords, AdaptorWords, NetWords, ProcWords,
   AstrayWords, StateNames, Sessions, Answers

Inv == TypeOK /\ Attaching

LEMMA InvInit == Init => Inv
<1> SUFFICES ASSUME Init PROVE Inv
  OBVIOUS
<1>1. calls \in Seq(Frames) /\ Once(calls)
  <2>1. calls = <<>>
    BY Zenon DEF Init
  <2>2. QED
    BY <2>1 DEF Once
<1>2. WindowWords /\ NetWords /\ ProcWords /\ AstrayWords
  BY Zenon DEF Init, WindowWords, NetWords, ProcWords, AstrayWords
<1>3. AdaptorWords
  BY StatesNamed, Zenon DEF Init, AdaptorWords
<1>4. session \in Sessions /\ answer \in Answers
  BY Begun, Zenon DEF Init, Answers
<1>5. downloads \in Nat /\ budget \in 0 .. Budget
  <2>1. downloads = 0 /\ budget = Budget
    BY Zenon DEF Init
  <2>2. QED
    BY <2>1, RuntimeAssumption
<1>6. Linked /\ answer # "SELECT_VIEW" /\ (Chosen => source = "current")
  BY Zenon DEF Init, Linked, Chosen
<1>7. QED
  BY <1>1, <1>2, <1>3, <1>4, <1>5, <1>6, TypeParts, AttachingParts, Zenon
     DEF Inv

LEMMA InvNext == Inv /\ [Next]_vars => Inv'
<1> SUFFICES ASSUME Inv, [Next]_vars PROVE Inv'
  OBVIOUS
<1>1. CASE Next
  <2>1. /\ WindowWords /\ AdaptorWords /\ NetWords /\ ProcWords
        /\ AstrayWords
        /\ calls \in Seq(Frames) /\ session \in Sessions
        /\ answer \in Answers
        /\ downloads \in Nat /\ budget \in 0 .. Budget
    BY TypeParts, Zenon DEF Inv
  <2>2. /\ Once(calls) /\ answer # "SELECT_VIEW"
        /\ astray = {} => Linked
        /\ astray = {} => (Chosen => source = "current")
    BY AttachingParts, Zenon DEF Inv
  <2>3. WindowWords' /\ AdaptorWords' /\ NetWords' /\ ProcWords'
    BY <1>1, <2>1, WindowWordsNext, AdaptorWordsNext, NetWordsNext,
       ProcWordsNext, Zenon
  <2>4. AstrayWords'
    BY <1>1, <2>1, AstrayWordsNext, Zenon
  <2>5. calls' \in Seq(Frames) /\ Once(calls')
    BY <1>1, <2>1, <2>2, CallsNext, Zenon
  <2>6. session' \in Sessions
    BY <1>1, <2>1, SessionNext, Zenon
  <2>7. answer' \in Answers /\ answer' # "SELECT_VIEW"
    BY <1>1, <2>1, <2>2, AnswerNext, Zenon
  <2>8. downloads' \in Nat /\ budget' \in 0 .. Budget
    BY <1>1, <2>1, RuntimeAssumption, NumbersNext, Zenon
  <2>9. astray' = {} => Linked'
    BY <1>1, <2>1, <2>2, LinkedNext, Zenon
  <2>10. astray' = {} => (Chosen' => source' = "current")
    BY <1>1, <2>1, <2>2, ChosenNext, Zenon
  <2>11. TypeOK'
    BY <2>3, <2>4, <2>5, <2>6, <2>7, <2>8, Zenon
       DEF TypeOK, WindowWords, AdaptorWords, NetWords, ProcWords,
           AstrayWords, StateNames, Sessions, Answers
  <2>12. Attaching'
    BY <2>5, <2>7, <2>9, <2>10, Zenon
       DEF Attaching, Once, Linked, Chosen
  <2>13. QED
    BY <2>11, <2>12, Zenon DEF Inv
<1>2. CASE UNCHANGED vars
  <2>1. TypeOK'
    <3>1. /\ UNCHANGED windowvars /\ UNCHANGED adaptorvars
          /\ UNCHANGED buildvars /\ UNCHANGED netvars
          /\ UNCHANGED procvars
          /\ UNCHANGED <<calls, astray, budget>>
      BY <1>2, Zenon DEF vars
    <3>2. /\ WindowWords /\ AdaptorWords /\ NetWords /\ ProcWords
          /\ AstrayWords
          /\ calls \in Seq(Frames) /\ session \in Sessions
          /\ answer \in Answers
          /\ downloads \in Nat /\ budget \in 0 .. Budget
      BY TypeParts, Zenon DEF Inv
    <3>3. WindowWords' /\ ProcWords'
      BY <3>1, <3>2, Zenon DEF windowvars, procvars, WindowWords, ProcWords
    <3>4. AdaptorWords'
      BY <3>1, <3>2, Zenon DEF adaptorvars, AdaptorWords, StateNames
    <3>5. NetWords' /\ AstrayWords'
      BY <3>1, <3>2, Zenon DEF buildvars, netvars, NetWords, AstrayWords
    <3>6. /\ calls' \in Seq(Frames) /\ session' \in Sessions
          /\ answer' \in Answers
          /\ downloads' \in Nat /\ budget' \in 0 .. Budget
      BY <3>1, <3>2, Zenon DEF adaptorvars, buildvars, netvars
    <3>7. QED
      BY <3>3, <3>4, <3>5, <3>6, Zenon
         DEF TypeOK, WindowWords, AdaptorWords, NetWords, ProcWords,
             AstrayWords, StateNames, Sessions, Answers
  <2>2. Attaching'
    BY <1>2, Zenon DEF vars, windowvars, adaptorvars, buildvars, netvars,
       procvars, Inv, Attaching, Viewing, Asks, Calling
  <2>3. QED
    BY <2>1, <2>2, Zenon DEF Inv
<1>3. QED
  BY <1>1, <1>2, Zenon

-----------------------------------------------------------------------------
\* The inductive invariant holds for any number of interferences.
THEOREM ResumesHolds == Spec => []Resumes
BY ResumesInit, ResumesNext, PTL DEF Spec

\* Whatever fails, and whatever the user does meanwhile, the runtime is never
\* left without a timer, a connection or a server about to start, unless a
\* project could not be had or the server could not be started (projectBuilt,
\* ServerController::start).
THEOREM GivesUpNever == Spec => []NeverGivesUp
<1>1. Resumes => NeverGivesUp
  <2> SUFFICES ASSUME Resumes, AtRest
               PROVE  "failed" \in astray \/ unstarted
    BY DEF NeverGivesUp
  <2>1. ~Handling(calls) /\ ~AtHead(calls, "error")
    BY DEF AtRest, Handling, AtHead
  <2>2. QED
    BY <2>1 DEF Resumes, Typed, Rearmed, Serves, AtRest
<1>2. QED
  BY ResumesHolds, <1>1, PTL

\* Nobody but the handler of a button, while it runs, forbids retries.
THEOREM RetriesAllowed == Spec => []RetriesUnlessHandling
<1>1. Resumes => RetriesUnlessHandling
  <2> SUFFICES ASSUME Resumes, calls = <<>> PROVE retry \/ window = "closed"
    BY DEF RetriesUnlessHandling
  <2>1. ~Handling(calls)
    BY DEF Handling
  <2>2. QED
    BY <2>1 DEF Resumes
<1>2. QED
  BY ResumesHolds, <1>1, PTL

\* The varsets that are shown never belong to a session that was destroyed.
THEOREM NeverDangling == Spec => []NoDanglingVarsets
<1>1. Init => Sources
  BY DEF Init, Sources
<1>2. Sources => NoDanglingVarsets
  BY DEF Sources, NoDanglingVarsets
<1>3. QED
  BY <1>1, <1>2, SourcesNext, PTL DEF Spec

\* Every variable keeps its type, for any number of interferences: calls is
\* a stack of the handlers' calls, the session is a session of the protocol
\* whose diagram never fails unnoticed, the downloads never fall below zero.
THEOREM RuntimeTyped == Spec => []TypeOK
<1>1. Inv => TypeOK
  BY DEF Inv
<1>2. QED
  BY InvInit, InvNext, <1>1, PTL DEF Spec

\* Before its project is attached to it a session neither shows a view nor
\* has asked for one, unless something went astray.
THEOREM AttachingHolds == Spec => []Attaching
<1>1. Inv => Attaching
  BY DEF Inv
<1>2. QED
  BY InvInit, InvNext, <1>1, PTL DEF Spec

\* The view that is selected gets its values from the present session
\* (processPendingEvents, projectBuilt), however the connection failed and
\* was made again before, unless something went astray since.
THEOREM SelectedAlwaysAttached == Spec => []SelectedIsAttached
<1>1. Inv => SelectedIsAttached
  BY AttachingParts, Zenon DEF Inv, Linked, SelectedIsAttached
<1>2. QED
  BY InvInit, InvNext, <1>1, PTL DEF Spec
=============================================================================
