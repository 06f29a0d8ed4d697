---------------------------- MODULE BridgeProofs ----------------------------
(***************************************************************************)
(* Proofs about IDL_IDLBridge: an answer belongs to the last command, and  *)
(* a client that has something to do is known to be busy, for every set of *)
(* clients and spies, every number of commands and call-backs of any depth.*)
(***************************************************************************)
EXTENDS Bridge, TLAPS, SequenceTheorems, WellFoundedInduction

Good(c) == Blameless(c, {"early", "stop", "cut"})

(* What the master is in the middle of, without running any program.       *)
Blocking == {"fork", "fork_spy", "send", "call", "wait"}

(* All of the frames f, or all but the last, are left at any time.         *)
Free(f) == \A i \in 1 .. Len(f) : f[i].at \notin Blocking

Settled(f) == \A i \in 1 .. Len(f) - 1 : f[i].at \notin Blocking

Forking(c) == Doing("fork", c) \/ Doing("fork_spy", c)

Sending(c) == Doing("send", c) \/ Doing("call", c)

(* A client before its first sign of life, and while it is told something. *)
Shape(c) ==
    /\ client[c] = "unborn" =>
        c \notin mapped /\ sent[c] = 0 /\ pipe[c] = <<>> /\ box[c] = <<>> /\ ~Doing("exit", c)
    /\ Forking(c) =>
        c \in mapped /\ sent[c] = 0 /\ pipe[c] = <<>> /\ client[c] \in {"starting", "idle", "gone"}
    /\ box[c] = <<0>> => Forking(c)
    /\ client[c] = "starting" => Forking(c) /\ box[c] = <<>>
    /\ c \in mapped => Exit \notin Range(pipe[c])
    /\ Sending(c) => c \in mapped /\ sent[c] < MaxCommands
    /\ client[c] \in {"busy", "stopped"} => cmd[c] # 0
    /\ client[c] = "stopped" => ~Good(c)

(* The last command is in one place only: the pipe, the client's hands, or *)
(* as an answer in the queue.                                              *)
Flight(c) ==
    /\ \A i \in DOMAIN pipe[c] : pipe[c][i] = Exit \/ (i = 1 /\ pipe[c][i] = sent[c])
    /\ pipe[c] # <<>> /\ pipe[c][1] # Exit => client[c] # "busy" /\ box[c] = <<>>
    /\ client[c] = "busy" => cmd[c] = sent[c] /\ box[c] = <<>>
    /\ box[c] # <<>> => box[c] = <<sent[c]>>

(* The entry knows of it; and no call-back will forget it.                 *)
Known(c) ==
    /\ c \in mapped /\ ~Doing("exit", c) /\ Outstanding(c) =>
        /\ entry[c].status = 1
        /\ CallbackPending(c) => Doing("wait", c)
    /\ Sending(c) =>
        /\ pipe[c] = <<>> /\ client[c] # "busy" /\ box[c] = <<>>
        /\ entry[c].status = 1 /\ ~Doing("exit", c)
    /\ Doing("send", c) => ~CallbackPending(c)

ClientInv(c) == Shape(c) /\ (Good(c) => Flight(c) /\ Known(c))

BridgeInv ==
    /\ TypeOK
    /\ Settled(frames)
    /\ \A c \in Clients : ClientInv(c)

-----------------------------------------------------------------------------
(* Sequences *)

LEMMA FrontOf ==
    ASSUME NEW S, NEW s \in Seq(S), s # <<>>
    PROVE  /\ Len(s) \in Nat \ {0}
           /\ Last(s) = s[Len(s)] /\ Last(s) \in S
           /\ Front(s) \in Seq(S) /\ Len(Front(s)) = Len(s) - 1
           /\ \A i \in 1 .. Len(s) - 1 : Front(s)[i] = s[i]
<1>1. Len(s) \in Nat \ {0}
  BY EmptySeq
<1>2. s[Len(s)] \in S
  BY <1>1, ElementOfSeq
<1>3. CASE Len(s) = 1
  <2>1. Front(s) = <<>>
    BY <1>3, SubSeqEmpty DEF Front
  <2> QED
    BY <1>1, <1>2, <1>3, <2>1 DEF Last
<1>4. CASE Len(s) # 1
  <2>1. Len(s) - 1 \in 1 .. Len(s)
    BY <1>1, <1>4
  <2>2. Front(s) \in Seq(S)
    BY <2>1 DEF Front
  <2>3. Len(Front(s)) = Len(s) - 1
    BY <2>1 DEF Front
  <2>4. \A i \in 1 .. Len(s) - 1 : Front(s)[i] = s[i]
    BY <2>1 DEF Front
  <2> QED
    BY <1>1, <1>2, <2>2, <2>3, <2>4 DEF Last
<1> QED
  BY <1>3, <1>4

LEMMA PushSeq ==
    ASSUME NEW S, NEW s \in Seq(S), NEW e \in S
    PROVE  /\ Append(s, e) \in Seq(S)
           /\ Len(Append(s, e)) = Len(s) + 1 /\ Len(s) \in Nat
           /\ Append(s, e)[Len(s) + 1] = e
           /\ \A i \in 1 .. Len(s) : Append(s, e)[i] = s[i]
OBVIOUS

LEMMA DomainSeq ==
    ASSUME NEW S, NEW s \in Seq(S)
    PROVE  DOMAIN s = 1 .. Len(s) /\ Len(s) \in Nat
OBVIOUS

LEMMA TailOf ==
    ASSUME NEW S, NEW s \in Seq(S), s # <<>>
    PROVE  /\ Tail(s) \in Seq(S) /\ Len(Tail(s)) = Len(s) - 1
           /\ Head(s) = s[1] /\ Head(s) \in S /\ 1 \in DOMAIN s
           /\ \A i \in DOMAIN Tail(s) : i + 1 \in DOMAIN s /\ Tail(s)[i] = s[i + 1]
<1>1. Len(s) \in Nat \ {0}
  BY EmptySeq
<1> QED
  BY <1>1

-----------------------------------------------------------------------------
(* The master's frames *)

Kinds == {"fork", "fork_spy", "send", "call", "wait", "callback", "event", "exit"}

With(f, x, c) == Append(f, [at |-> x, on |-> c])

Has(f, x, c) == \E i \in DOMAIN f : f[i] = [at |-> x, on |-> c]

LEMMA FrameFacts ==
    ASSUME NEW x \in Kinds, NEW c \in Clients
    PROVE  /\ [at |-> x, on |-> c] \in Frames
           /\ [at |-> x, on |-> c].at = x
           /\ \A y, d : [at |-> x, on |-> c] = [at |-> y, on |-> d] <=> x = y /\ c = d
BY DEF Frames, Kinds

LEMMA PushedFrame ==
    ASSUME NEW f \in Seq(Frames), NEW x \in Kinds, NEW c \in Clients
    PROVE  /\ With(f, x, c) \in Seq(Frames)
           /\ Len(With(f, x, c)) = Len(f) + 1 /\ Len(f) \in Nat
           /\ \A y, d : Has(With(f, x, c), y, d) <=> Has(f, y, d) \/ (y = x /\ d = c)
           /\ Free(f) => Settled(With(f, x, c))
           /\ Free(f) /\ x \notin Blocking => Free(With(f, x, c))
<1> DEFINE e == [at |-> x, on |-> c]
           g == With(f, x, c)
<1>1. e \in Frames /\ e.at = x /\ \A y, d : e = [at |-> y, on |-> d] <=> x = y /\ c = d
  BY FrameFacts
<1> HIDE DEF e, g
<1>2. g = Append(f, e)
  BY DEF e, g, With
<1>3. /\ g \in Seq(Frames) /\ Len(g) = Len(f) + 1 /\ Len(f) \in Nat
      /\ g[Len(f) + 1] = e /\ \A i \in 1 .. Len(f) : g[i] = f[i]
  BY <1>1, <1>2, PushSeq
<1>4. DOMAIN g = 1 .. Len(f) + 1 /\ DOMAIN f = 1 .. Len(f)
  BY <1>3, DomainSeq
<1>5. ASSUME NEW y, NEW d
      PROVE  Has(g, y, d) <=> Has(f, y, d) \/ (y = x /\ d = c)
  <2>1. ASSUME Has(g, y, d) PROVE Has(f, y, d) \/ (y = x /\ d = c)
    <3>1. PICK i \in 1 .. Len(f) + 1 : g[i] = [at |-> y, on |-> d]
      BY <1>4, <2>1 DEF Has
    <3>2. CASE i = Len(f) + 1
      BY <1>1, <1>3, <3>1, <3>2
    <3>3. CASE i # Len(f) + 1
      <4>1. i \in 1 .. Len(f)
        BY <1>3, <3>3
      <4> QED
        BY <1>3, <1>4, <3>1, <4>1 DEF Has
    <3> QED
      BY <3>2, <3>3
  <2>2. ASSUME Has(f, y, d) PROVE Has(g, y, d)
    <3>1. PICK i \in 1 .. Len(f) : f[i] = [at |-> y, on |-> d]
      BY <1>4, <2>2 DEF Has
    <3>2. i \in 1 .. Len(f) + 1 /\ g[i] = [at |-> y, on |-> d]
      BY <1>3, <3>1
    <3> QED
      BY <1>4, <3>2 DEF Has
  <2>3. ASSUME y = x, d = c PROVE Has(g, y, d)
    <3>1. Len(f) + 1 \in 1 .. Len(f) + 1 /\ g[Len(f) + 1] = [at |-> y, on |-> d]
      BY <1>1, <1>3, <2>3
    <3> QED
      BY <1>4, <3>1 DEF Has
  <2> QED
    BY <2>1, <2>2, <2>3
<1>6. Free(f) => Settled(g)
  BY <1>3 DEF Free, Settled
<1>7. ASSUME Free(f), x \notin Blocking PROVE Free(g)
  BY <1>1, <1>3, <1>7 DEF Free
<1> QED
  BY <1>3, <1>5, <1>6, <1>7 DEF g

LEMMA PoppedFrame ==
    ASSUME NEW f \in Seq(Frames), f # <<>>, NEW x, NEW c, Last(f) = [at |-> x, on |-> c]
    PROVE  /\ Front(f) \in Seq(Frames) /\ Len(Front(f)) = Len(f) - 1 /\ Len(f) \in Nat
           /\ Has(f, x, c)
           /\ \A y, d : Has(Front(f), y, d) => Has(f, y, d)
           /\ \A y, d : Has(f, y, d) => Has(Front(f), y, d) \/ (y = x /\ d = c)
           /\ Settled(f) => Free(Front(f))
           /\ Settled(f) /\ x \notin Blocking => Free(f)
<1> DEFINE g == Front(f)
<1>1. /\ Len(f) \in Nat \ {0} /\ f[Len(f)] = [at |-> x, on |-> c] /\ f[Len(f)] \in Frames
      /\ g \in Seq(Frames) /\ Len(g) = Len(f) - 1 /\ \A i \in 1 .. Len(f) - 1 : g[i] = f[i]
  BY FrontOf
<1>2. DOMAIN g = 1 .. Len(f) - 1 /\ DOMAIN f = 1 .. Len(f)
  BY <1>1, DomainSeq
<1>3. f[Len(f)].at = x /\ \A y, d : f[Len(f)] = [at |-> y, on |-> d] => y = x /\ d = c
  BY <1>1
<1> HIDE DEF g
<1>4. Has(f, x, c)
  <2>1. Len(f) \in DOMAIN f
    BY <1>1, <1>2
  <2> QED
    BY <1>1, <2>1 DEF Has
<1>5. ASSUME NEW y, NEW d, Has(g, y, d) PROVE Has(f, y, d)
  <2>1. PICK i \in 1 .. Len(f) - 1 : g[i] = [at |-> y, on |-> d]
    BY <1>2, <1>5 DEF Has
  <2>2. i \in 1 .. Len(f) /\ f[i] = [at |-> y, on |-> d]
    BY <1>1, <2>1
  <2> QED
    BY <1>2, <2>2 DEF Has
<1>6. ASSUME NEW y, NEW d, Has(f, y, d) PROVE Has(g, y, d) \/ (y = x /\ d = c)
  <2>1. PICK i \in 1 .. Len(f) : f[i] = [at |-> y, on |-> d]
    BY <1>2, <1>6 DEF Has
  <2>2. CASE i = Len(f)
    BY <1>3, <2>1, <2>2
  <2>3. CASE i # Len(f)
    <3>1. i \in 1 .. Len(f) - 1
      BY <1>1, <2>3
    <3> QED
      BY <1>1, <1>2, <2>1, <3>1 DEF Has
  <2> QED
    BY <2>2, <2>3
<1>7. Settled(f) => Free(g)
  BY <1>1 DEF Settled, Free
<1>8. ASSUME Settled(f), x \notin Blocking PROVE Free(f)
  <2>1. SUFFICES ASSUME NEW i \in 1 .. Len(f) PROVE f[i].at \notin Blocking
    BY DEF Free
  <2>2. CASE i = Len(f)
    BY <1>3, <1>8, <2>2
  <2>3. CASE i # Len(f)
    BY <1>1, <1>8, <2>3 DEF Settled
  <2> QED
    BY <2>2, <2>3
<1> QED
  BY <1>1, <1>4, <1>5, <1>6, <1>7, <1>8 DEF g

LEMMA FreeFrames ==
    ASSUME NEW f \in Seq(Frames)
    PROVE  /\ Free(f) => Settled(f)
           /\ f = <<>> => Free(f) /\ \A x, c : ~Has(f, x, c)
           /\ Free(f) => \A x \in Blocking, c \in Clients : ~Has(f, x, c)
           /\ Settled(f) => \A x, y \in Blocking, c, d \in Clients :
                Has(f, x, c) /\ Has(f, y, d) => x = y /\ c = d
<1>1. DOMAIN f = 1 .. Len(f) /\ Len(f) \in Nat
  BY DomainSeq
<1>2. Free(f) => Settled(f)
  BY <1>1 DEF Free, Settled
<1>3. ASSUME f = <<>> PROVE Free(f) /\ \A x, c : ~Has(f, x, c)
  <2>1. Len(f) = 0
    BY <1>3, EmptySeq
  <2> QED
    BY <1>1, <2>1 DEF Free, Has
<1>4. ASSUME Free(f), NEW x \in Blocking, NEW c \in Clients PROVE ~Has(f, x, c)
  BY <1>1, <1>4 DEF Free, Has
<1>5. ASSUME Settled(f), NEW x \in Blocking, NEW y \in Blocking,
             NEW c \in Clients, NEW d \in Clients, Has(f, x, c), Has(f, y, d)
      PROVE  x = y /\ c = d
  <2>1. PICK i \in 1 .. Len(f) : f[i] = [at |-> x, on |-> c]
    BY <1>1, <1>5 DEF Has
  <2>2. PICK j \in 1 .. Len(f) : f[j] = [at |-> y, on |-> d]
    BY <1>1, <1>5 DEF Has
  <2>3. f[i].at = x /\ f[j].at = y
    BY <2>1, <2>2
  <2>4. ~(i \in 1 .. Len(f) - 1) /\ ~(j \in 1 .. Len(f) - 1)
    BY <1>5, <2>3 DEF Settled
  <2>5. i = Len(f) /\ j = Len(f)
    <3>1. ASSUME NEW n \in Nat, NEW k \in 1 .. n, k \notin 1 .. n - 1 PROVE k = n
      BY <3>1
    <3> QED
      BY <1>1, <2>4, <3>1
  <2> QED
    BY <2>1, <2>2, <2>5
<1> QED
  BY <1>2, <1>3, <1>4, <1>5

-----------------------------------------------------------------------------
(* What a step does to the frames of the master *)

FramesOK == frames \in Seq(Frames) /\ Len(frames) <= MaxDepth + 1 /\ Settled(frames)

Quiet == \A x \in Blocking, c \in Clients : ~Doing(x, c)

OnlyBlocks(at, c) == \A x \in Blocking, d \in Clients : Doing(x, d) => x = at /\ d = c

Pushes(at, c) == \A x, d : Doing(x, d)' <=> Doing(x, d) \/ (x = at /\ d = c)

Pops(at, c) ==
    /\ \A x, d : Doing(x, d)' => Doing(x, d)
    /\ \A x, d : Doing(x, d) => Doing(x, d)' \/ (x = at /\ d = c)

LEMMA DoingHas ==
    /\ \A x, c : Doing(x, c) <=> Has(frames, x, c)
    /\ \A x, c : Doing(x, c)' <=> Has(frames', x, c)
BY DEF Doing, Has

LEMMA Programs ==
    ASSUME BridgeInv, ProgramRuns
    PROVE  Free(frames) /\ Quiet /\ Len(frames) < MaxDepth /\ frames \in Seq(Frames)
<1>1. /\ frames \in Seq(Frames) /\ Settled(frames) /\ Len(frames) < MaxDepth
      /\ frames # <<>> => Last(frames).at \in {"callback", "event"}
  BY DEF BridgeInv, TypeOK, ProgramRuns
<1>2. CASE frames = <<>>
  BY <1>1, <1>2, FreeFrames, DoingHas DEF Quiet
<1>3. CASE frames # <<>>
  <2>1. /\ Len(frames) \in Nat \ {0} /\ Last(frames) = frames[Len(frames)]
    BY <1>1, <1>3, FrontOf
  <2>2. frames[Len(frames)].at \notin Blocking
    BY <1>1, <1>3, <2>1 DEF Blocking
  <2>3. Free(frames)
    <3>1. SUFFICES ASSUME NEW i \in 1 .. Len(frames) PROVE frames[i].at \notin Blocking
      BY DEF Free
    <3>2. CASE i = Len(frames)
      BY <2>2, <3>2
    <3>3. CASE i # Len(frames)
      BY <1>1, <2>1, <3>3 DEF Settled
    <3> QED
      BY <3>2, <3>3
  <2>4. Quiet
    BY <1>1, <2>3, FreeFrames, DoingHas DEF Quiet
  <2> QED
    BY <1>1, <2>3, <2>4
<1> QED
  BY <1>2, <1>3

LEMMA Tops ==
    ASSUME BridgeInv, NEW x \in Kinds, NEW c \in Clients, Top(x, c)
    PROVE  /\ Doing(x, c) /\ OnlyBlocks(x, c)
           /\ x \notin Blocking => Quiet
<1>1. /\ frames \in Seq(Frames) /\ Settled(frames) /\ frames # <<>>
      /\ Last(frames) = [at |-> x, on |-> c]
  BY DEF BridgeInv, TypeOK, Top
<1>2. Has(frames, x, c) /\ (x \notin Blocking => Free(frames))
  BY <1>1, PoppedFrame
<1>3. x \notin Blocking => Quiet
  BY <1>1, <1>2, FreeFrames, DoingHas DEF Quiet
<1>4. OnlyBlocks(x, c)
  <2>1. CASE x \in Blocking
    BY <1>1, <1>2, <2>1, FreeFrames, DoingHas DEF OnlyBlocks
  <2>2. CASE x \notin Blocking
    BY <1>3, <2>2 DEF OnlyBlocks, Quiet
  <2> QED
    BY <2>1, <2>2
<1> QED
  BY <1>2, <1>3, <1>4, DoingHas

LEMMA PushStep ==
    ASSUME BridgeInv, ProgramRuns, NEW x \in Kinds, NEW c \in Clients,
           frames' = Pushed(x, c)
    PROVE  FramesOK' /\ Pushes(x, c) /\ Quiet
<1>1. Free(frames) /\ Quiet /\ Len(frames) < MaxDepth /\ frames \in Seq(Frames)
  BY Programs
<1>2. frames' = With(frames, x, c)
  BY DEF Pushed, With
<1>3. /\ frames' \in Seq(Frames) /\ Len(frames') = Len(frames) + 1 /\ Len(frames) \in Nat
      /\ Settled(frames')
      /\ \A y, d : Has(frames', y, d) <=> Has(frames, y, d) \/ (y = x /\ d = c)
  BY <1>1, <1>2, PushedFrame
<1>4. Len(frames') <= MaxDepth + 1
  BY <1>1, <1>3, BoundsAssumption
<1> QED
  BY <1>1, <1>3, <1>4, DoingHas DEF FramesOK, Pushes, Settled

LEMMA PushTwo ==
    ASSUME BridgeInv, ProgramRuns, NEW c \in Clients,
           frames' = Append(Pushed("exit", c), [at |-> "callback", on |-> c])
    PROVE  /\ FramesOK' /\ Quiet
           /\ \A y, d : Doing(y, d)' <=>
                Doing(y, d) \/ (y \in {"exit", "callback"} /\ d = c)
<1> DEFINE f == Pushed("exit", c)
           g == frames'
<1>1. Free(frames) /\ Quiet /\ Len(frames) < MaxDepth /\ frames \in Seq(Frames)
  BY Programs
<1>2. f = With(frames, "exit", c)
  BY DEF Pushed, With
<1>3. "exit" \in Kinds \ Blocking /\ "callback" \in Kinds \ Blocking
  BY DEF Kinds, Blocking
<1> HIDE DEF f, g
<1>4. /\ f \in Seq(Frames) /\ Len(f) = Len(frames) + 1 /\ Len(frames) \in Nat
      /\ Free(f)
      /\ \A y, d : Has(f, y, d) <=> Has(frames, y, d) \/ (y = "exit" /\ d = c)
  BY <1>1, <1>2, <1>3, PushedFrame
<1>5. g = With(f, "callback", c)
  BY DEF f, g, With
<1>6. /\ g \in Seq(Frames) /\ Len(g) = Len(f) + 1
      /\ Settled(g)
      /\ \A y, d : Has(g, y, d) <=> Has(f, y, d) \/ (y = "callback" /\ d = c)
  BY <1>3, <1>4, <1>5, PushedFrame
<1>7. Len(g) <= MaxDepth + 1
  BY <1>1, <1>4, <1>6, BoundsAssumption
<1>8. FramesOK'
  BY <1>6, <1>7 DEF FramesOK, Settled, g
<1> QED
  BY <1>1, <1>4, <1>6, <1>8, DoingHas DEF g

LEMMA PopStep ==
    ASSUME BridgeInv, NEW x \in Kinds, NEW c \in Clients, Top(x, c),
           frames' = Front(frames)
    PROVE  FramesOK' /\ Pops(x, c) /\ Quiet'
<1>1. /\ frames \in Seq(Frames) /\ Settled(frames) /\ frames # <<>>
      /\ Len(frames) <= MaxDepth + 1 /\ Last(frames) = [at |-> x, on |-> c]
  BY DEF BridgeInv, TypeOK, Top
<1>2. /\ frames' \in Seq(Frames) /\ Len(frames') = Len(frames) - 1 /\ Len(frames) \in Nat
      /\ \A y, d : Has(frames', y, d) => Has(frames, y, d)
      /\ \A y, d : Has(frames, y, d) => Has(frames', y, d) \/ (y = x /\ d = c)
      /\ Free(frames')
  BY <1>1, PoppedFrame
<1>3. Settled(frames') /\ \A y \in Blocking, d \in Clients : ~Has(frames', y, d)
  BY <1>2, FreeFrames
<1>4. Len(frames') <= MaxDepth + 1
  BY <1>1, <1>2, BoundsAssumption
<1>5. FramesOK'
  BY <1>2, <1>3, <1>4 DEF FramesOK, Settled
<1>6. Pops(x, c)
  BY <1>2, DoingHas DEF Pops
<1>7. Quiet'
  BY <1>3, DoingHas DEF Quiet, Blocking
<1> QED
  BY <1>5, <1>6, <1>7

LEMMA SwapStep ==
    ASSUME BridgeInv, NEW x \in Kinds, NEW z \in Kinds, NEW c \in Clients, NEW d \in Clients,
           Top(x, c), frames' = With(Front(frames), z, d)
    PROVE  /\ FramesOK'
           /\ \A y, e : Doing(y, e)' => Doing(y, e) \/ (y = z /\ e = d)
           /\ \A y, e : Doing(y, e) => Doing(y, e)' \/ (y = x /\ e = c)
           /\ Doing(z, d)'
           /\ \A y \in Blocking, e \in Clients : Doing(y, e)' => y = z /\ e = d
<1> DEFINE f == Front(frames)
           g == frames'
<1>1. /\ frames \in Seq(Frames) /\ Settled(frames) /\ frames # <<>>
      /\ Len(frames) <= MaxDepth + 1 /\ Last(frames) = [at |-> x, on |-> c]
  BY DEF BridgeInv, TypeOK, Top
<1>2. /\ f \in Seq(Frames) /\ Len(f) = Len(frames) - 1 /\ Len(frames) \in Nat
      /\ \A y, e : Has(f, y, e) => Has(frames, y, e)
      /\ \A y, e : Has(frames, y, e) => Has(f, y, e) \/ (y = x /\ e = c)
      /\ Free(f)
  BY <1>1, PoppedFrame
<1>3. \A y \in Blocking, e \in Clients : ~Has(f, y, e)
  BY <1>2, FreeFrames
<1>4. g = With(f, z, d)
  OBVIOUS
<1> HIDE DEF f, g
<1>5. /\ g \in Seq(Frames) /\ Len(g) = Len(f) + 1
      /\ Settled(g)
      /\ \A y, e : Has(g, y, e) <=> Has(f, y, e) \/ (y = z /\ e = d)
  <2>1. f \in Seq(Frames) /\ Free(f)
    BY <1>2
  <2>2. With(f, z, d) \in Seq(Frames) /\ Len(With(f, z, d)) = Len(f) + 1
    BY <2>1, PushedFrame
  <2>3. Settled(With(f, z, d))
    BY <2>1, PushedFrame
  <2>4. \A y, e : Has(With(f, z, d), y, e) <=> Has(f, y, e) \/ (y = z /\ e = d)
    BY <2>1, PushedFrame
  <2> QED
    BY <1>4, <2>2, <2>3, <2>4
<1>6. Len(g) <= MaxDepth + 1
  BY <1>1, <1>2, <1>5, BoundsAssumption
<1>7. FramesOK'
  BY <1>5, <1>6 DEF FramesOK, Settled, g
<1> QED
  BY <1>2, <1>3, <1>5, <1>7, DoingHas DEF g

LEMMA ThrowStep ==
    ASSUME frames' = <<>>
    PROVE  FramesOK' /\ \A x, c : ~Doing(x, c)'
<1>1. <<>> \in Seq(Frames) /\ Len(<<>>) = 0
  BY EmptySeq
<1>2. Settled(<<>>) /\ \A x, c : ~Has(<<>>, x, c)
  BY <1>1, FreeFrames
<1>3. FramesOK'
  BY <1>1, <1>2, BoundsAssumption DEF FramesOK, Settled
<1> QED
  BY <1>2, <1>3, DoingHas

-----------------------------------------------------------------------------
(* A client that a step is not about *)

(* What is kept of d but for the master's frames. *)
Local(d) ==
    /\ d \in mapped' <=> d \in mapped
    /\ entry'[d].status = entry[d].status
    /\ pipe'[d] = pipe[d] /\ box'[d] = box[d] /\ sent'[d] = sent[d]
    /\ client'[d] = client[d] /\ cmd'[d] = cmd[d]
    /\ blame[d] \subseteq blame'[d]

Kept(d) ==
    /\ Local(d)
    /\ d \in Range(queue)' => d \in Range(queue)
    /\ SpyAt("report", d)' => SpyAt("report", d)

(* The master is in the middle of the same with d; what it gives up, it is *)
(* blamed for.                                                             *)
Aside(d) ==
    /\ Local(d)
    /\ \A x \in Blocking : Doing(x, d)' <=> Doing(x, d)
    /\ Doing("exit", d)' => Doing("exit", d)
    /\ Doing("exit", d) => Doing("exit", d)' \/ ~Good(d)'
    /\ CallbackPending(d)' => CallbackPending(d)

LEMMA AsideInv ==
    ASSUME NEW d \in Clients, ClientInv(d), Aside(d)
    PROVE  ClientInv(d)'
<1>1. /\ d \in mapped' <=> d \in mapped
      /\ entry'[d].status = entry[d].status
      /\ pipe'[d] = pipe[d] /\ box'[d] = box[d] /\ sent'[d] = sent[d]
      /\ client'[d] = client[d] /\ cmd'[d] = cmd[d]
  BY DEF Aside, Local
<1>2. Good(d)' => Good(d)
  BY DEF Aside, Local, Good, Blameless
<1>3. /\ Forking(d)' <=> Forking(d)
      /\ Sending(d)' <=> Sending(d)
      /\ Doing("send", d)' <=> Doing("send", d)
      /\ Doing("wait", d)' <=> Doing("wait", d)
  BY DEF Aside, Forking, Sending, Blocking
<1>4. /\ Doing("exit", d)' => Doing("exit", d)
      /\ Doing("exit", d) => Doing("exit", d)' \/ ~Good(d)'
      /\ CallbackPending(d)' => CallbackPending(d)
  BY DEF Aside
<1>5. Shape(d)'
  <2>1. Shape(d)
    BY DEF ClientInv
  <2>2. client[d] = "stopped" => ~Good(d)'
    BY <1>2, <2>1 DEF Shape
  <2>3. Range(pipe[d])' = Range(pipe[d])
    BY <1>1
  <2> QED
    BY <1>1, <1>3, <1>4, <2>1, <2>2, <2>3 DEF Shape
<1>6. ASSUME Good(d)' PROVE Flight(d)' /\ Known(d)'
  <2>1. Flight(d) /\ Known(d)
    BY <1>2, <1>6 DEF ClientInv
  <2>2. Flight(d)'
    BY <1>1, <2>1 DEF Flight
  <2>3. Outstanding(d)' <=> Outstanding(d)
    BY <1>1 DEF Outstanding
  <2>4. Doing("exit", d)' <=> Doing("exit", d)
    BY <1>4, <1>6
  <2>5. Known(d)'
    BY <1>1, <1>3, <1>4, <2>1, <2>3, <2>4 DEF Known
  <2> QED
    BY <2>2, <2>5
<1> QED
  BY <1>5, <1>6 DEF ClientInv

(* The frames of d are what they were. *)
LEMMA AsideByFrames ==
    ASSUME NEW d \in Clients, Kept(d), \A x : Doing(x, d)' <=> Doing(x, d)
    PROVE  Aside(d)
<1>1. CallbackPending(d)' => CallbackPending(d)
  BY DEF CallbackPending, Kept
<1> QED
  BY <1>1 DEF Aside, Kept

LEMMA AsideAlone ==
    ASSUME NEW d \in Clients, Kept(d), frames' = frames
    PROVE  Aside(d)
<1>1. \A x : Doing(x, d)' <=> Doing(x, d)
  BY DEF Doing
<1> QED
  BY <1>1, AsideByFrames

LEMMA Together ==
    ASSUME BridgeInv, NEW c \in Clients,
           TypeOK', FramesOK', \A d \in Clients \ {c} : Aside(d), ClientInv(c)'
    PROVE  BridgeInv'
<1>1. ASSUME NEW d \in Clients PROVE ClientInv(d)'
  <2>1. CASE d = c
    BY <2>1
  <2>2. CASE d # c
    BY <2>2, AsideInv DEF BridgeInv
  <2> QED
    BY <2>1, <2>2
<1> QED
  BY <1>1 DEF BridgeInv, FramesOK, Settled

LEMMA AllAside ==
    ASSUME BridgeInv, TypeOK', FramesOK', \A d \in Clients : Aside(d)
    PROVE  BridgeInv'
<1>1. ASSUME NEW d \in Clients PROVE ClientInv(d)'
  BY AsideInv DEF BridgeInv
<1> QED
  BY <1>1 DEF BridgeInv, FramesOK, Settled

-----------------------------------------------------------------------------
(* Steps of the master *)

LEMMA SameQueueAndSpies ==
    ASSUME NEW d, queue' = queue, spy' = spy
    PROVE  /\ d \in Range(queue)' => d \in Range(queue)
           /\ SpyAt("report", d)' => SpyAt("report", d)
BY DEF SpyAt, Range

LEMMA EmptyPipe ==
    /\ Range(<<>>) = {} /\ \A i \in DOMAIN <<>> : FALSE
    /\ \A x : <<x>> # <<>>
BY EmptySeq DEF Range

Entries == [Clients -> [status : 0 .. 2, nowait : BOOLEAN]]

WithStatus(c, k) == [entry EXCEPT ![c].status = k]

LEMMA StatusSet ==
    ASSUME TypeOK, NEW c \in Clients, NEW k \in {0, 1, 2}, entry' = WithStatus(c, k)
    PROVE  /\ entry' \in Entries /\ entry'[c].status = k
           /\ \A d \in Clients \ {c} : entry'[d] = entry[d]
<1>1. entry \in Entries
  BY DEF TypeOK, Entries
<1> QED
  BY <1>1 DEF Entries, WithStatus

LEMMA GmemForkStep ==
    ASSUME BridgeInv, NEW c \in Clients, GmemFork(c)
    PROVE  BridgeInv'
<1> DEFINE at == IF SpyNeeded(c) THEN "fork_spy" ELSE "fork"
<1>1. /\ ProgramRuns /\ client[c] = "unborn"
      /\ mapped' = mapped \cup {c}
      /\ client' = [client EXCEPT ![c] = "starting"]
      /\ frames' = Pushed(at, c)
      /\ UNCHANGED <<queue, spy, up, pipe, cmd, sig, box, sent, blame>>
  BY DEF GmemFork
<1>2. PICK nw \in BOOLEAN : entry' = [entry EXCEPT ![c] = [status |-> 0, nowait |-> nw]]
  BY DEF GmemFork
<1>3. at \in {"fork", "fork_spy"} /\ at \in Kinds
  BY DEF Kinds
<1> HIDE DEF at
<1>4. FramesOK' /\ Pushes(at, c) /\ Quiet
  BY <1>1, <1>3, PushStep
<1>5. TypeOK /\ ClientInv(c)
  BY DEF BridgeInv
<1>6. TypeOK'
  <2>1. mapped' \subseteq Clients
    BY <1>1, <1>5 DEF TypeOK
  <2>2. entry' \in [Clients -> [status : 0 .. 2, nowait : BOOLEAN]]
    BY <1>2, <1>5 DEF TypeOK
  <2>3. client' \in [Clients -> {"unborn", "starting", "idle", "busy", "stopped", "inner", "gone"}]
    BY <1>1, <1>5 DEF TypeOK
  <2> QED
    BY <1>1, <1>4, <1>5, <2>1, <2>2, <2>3 DEF TypeOK, FramesOK
<1>7. ASSUME NEW d \in Clients \ {c} PROVE Aside(d)
  <2>1. Kept(d)
    BY <1>1, <1>2, <1>5, SameQueueAndSpies DEF Kept, Local, TypeOK
  <2>2. \A x : Doing(x, d)' <=> Doing(x, d)
    BY <1>4 DEF Pushes
  <2> QED
    BY <2>1, <2>2, AsideByFrames
<1>8. /\ c \in mapped' /\ client'[c] = "starting"
      /\ pipe'[c] = <<>> /\ box'[c] = <<>> /\ sent'[c] = 0
  BY <1>1, <1>5 DEF TypeOK, ClientInv, Shape
<1>9. Forking(c)' /\ ~Sending(c)'
  BY <1>3, <1>4 DEF Pushes, Forking, Sending, Quiet, Blocking
<1>10. Shape(c)'
  BY <1>8, <1>9, EmptyPipe DEF Shape
<1>11. Flight(c)'
  BY <1>8, EmptyPipe DEF Flight
<1>12. Known(c)'
  BY <1>8, <1>9 DEF Known, Outstanding, Sending
<1>13. ClientInv(c)'
  BY <1>10, <1>11, <1>12 DEF ClientInv
<1> QED
  BY <1>4, <1>6, <1>7, <1>13, Together

(* A client of which the first sign of life was read. *)
LEMMA ForkedInv ==
    ASSUME NEW c \in Clients, ClientInv(c), Forking(c), box[c] # <<>>, box'[c] = <<>>,
           c \in mapped' <=> c \in mapped, pipe'[c] = pipe[c], sent'[c] = sent[c],
           client'[c] = client[c], cmd'[c] = cmd[c], blame[c] \subseteq blame'[c],
           Quiet', Doing("exit", c)' => Doing("exit", c)
    PROVE  ClientInv(c)'
<1>1. /\ c \in mapped /\ sent[c] = 0 /\ pipe[c] = <<>> /\ client[c] \in {"idle", "gone"}
  BY DEF ClientInv, Shape
<1>2. ~Forking(c)' /\ ~Sending(c)'
  BY DEF Forking, Sending, Quiet, Blocking
<1>3. Shape(c)'
  BY <1>1, <1>2, EmptyPipe DEF Shape
<1>4. Flight(c)'
  BY <1>1, EmptyPipe DEF Flight
<1>5. Known(c)'
  BY <1>1, <1>2 DEF Known, Outstanding, Sending
<1> QED
  BY <1>3, <1>4, <1>5 DEF ClientInv

LEMMA ForkDoneStep ==
    ASSUME BridgeInv, NEW c \in Clients, ForkDone(c)
    PROVE  BridgeInv'
<1>1. /\ Top("fork", c) /\ box[c] # <<>>
      /\ box' = [box EXCEPT ![c] = <<>>] /\ frames' = Front(frames)
      /\ UNCHANGED <<mapped, entry, queue, spy, up, pipe, client, cmd, sig, sent, blame>>
  BY DEF ForkDone, process
<1>2. "fork" \in Kinds
  BY DEF Kinds
<1>3. FramesOK' /\ Pops("fork", c) /\ Quiet' /\ Doing("fork", c)
  BY <1>1, <1>2, PopStep, Tops
<1>4. TypeOK /\ ClientInv(c)
  BY DEF BridgeInv
<1>5. box' \in [Clients -> Seq(Commands \cup {0})] /\ \A d \in Clients : Len(box'[d]) <= 1
  BY <1>1, <1>4, EmptySeq DEF TypeOK
<1>6. TypeOK'
  BY <1>1, <1>3, <1>4, <1>5 DEF TypeOK, FramesOK
<1>7. ASSUME NEW d \in Clients \ {c} PROVE Aside(d)
  <2>1. Kept(d)
    BY <1>1, <1>4, SameQueueAndSpies DEF Kept, Local, TypeOK
  <2>2. \A x : Doing(x, d)' <=> Doing(x, d)
    BY <1>3 DEF Pops
  <2> QED
    BY <2>1, <2>2, AsideByFrames
<1>8. box'[c] = <<>>
  BY <1>1, <1>4 DEF TypeOK
<1>9. ClientInv(c)'
  BY <1>1, <1>3, <1>4, <1>8, ForkedInv DEF Pops, Forking
<1> QED
  BY <1>3, <1>6, <1>7, <1>9, Together

LEMMA ForkDoneSpyStep ==
    ASSUME BridgeInv, NEW c \in Clients, ForkDoneSpy(c)
    PROVE  BridgeInv'
<1>1. /\ Top("fork_spy", c) /\ box[c] # <<>>
      /\ box' = [box EXCEPT ![c] = <<>>] /\ frames' = Front(frames)
      /\ UNCHANGED <<mapped, entry, queue, up, pipe, client, cmd, sig, sent>>
  BY DEF ForkDoneSpy, process
<1>2. "fork_spy" \in Kinds
  BY DEF Kinds
<1>3. FramesOK' /\ Pops("fork_spy", c) /\ Quiet' /\ Doing("fork_spy", c)
  BY <1>1, <1>2, PopStep, Tops
<1>4. TypeOK /\ ClientInv(c)
  BY DEF BridgeInv
<1>5. box' \in [Clients -> Seq(Commands \cup {0})] /\ \A d \in Clients : Len(box'[d]) <= 1
  BY <1>1, <1>4, EmptySeq DEF TypeOK
<1>6. blame' \in [Clients -> SUBSET Causes] /\ \A d \in Clients : blame[d] \subseteq blame'[d]
  <2>1. \/ blame' = blame
        \/ blame' = [d \in Clients |-> blame[d] \cup {"spies"}]
    BY DEF ForkDoneSpy
  <2> QED
    BY <1>4, <2>1 DEF TypeOK, Causes
<1>7. PICK s \in Spies : spy' = [spy EXCEPT ![s].at = "loop"]
  BY DEF ForkDoneSpy, FreeSpies
<1>8. spy' \in [Spies -> [at : {"off", "loop", "scan", "read", "report"}, on : Clients]]
  <2>1. spy \in [Spies -> [at : {"off", "loop", "scan", "read", "report"}, on : Clients]]
    BY <1>4 DEF TypeOK
  <2>2. [spy[s] EXCEPT !.at = "loop"] \in [at : {"off", "loop", "scan", "read", "report"}, on : Clients]
    BY <2>1
  <2> QED
    BY <1>7, <2>1, <2>2
<1>9. TypeOK'
  BY <1>1, <1>3, <1>4, <1>5, <1>6, <1>8 DEF TypeOK, FramesOK
<1>10. ASSUME NEW d, SpyAt("report", d)' PROVE SpyAt("report", d)
  <2>1. PICK t \in Spies : spy'[t] = [at |-> "report", on |-> d]
    BY <1>10 DEF SpyAt
  <2>2. t # s
    BY <1>4, <1>7, <2>1 DEF TypeOK
  <2> QED
    BY <1>4, <1>7, <2>1, <2>2 DEF TypeOK, SpyAt
<1>11. ASSUME NEW d \in Clients \ {c} PROVE Aside(d)
  <2>1. Kept(d)
    BY <1>1, <1>4, <1>6, <1>10 DEF Kept, Local, TypeOK
  <2>2. \A x : Doing(x, d)' <=> Doing(x, d)
    BY <1>3 DEF Pops
  <2> QED
    BY <2>1, <2>2, AsideByFrames
<1>12. box'[c] = <<>>
  BY <1>1, <1>4 DEF TypeOK
<1>13. ClientInv(c)'
  BY <1>1, <1>3, <1>4, <1>6, <1>12, ForkedInv DEF Pops, Forking
<1> QED
  BY <1>3, <1>9, <1>11, <1>13, Together

(* Nothing but a fork can leave 0 in the queue. *)
LEMMA GmemSendStep ==
    ASSUME BridgeInv, NEW c \in Clients, NEW at \in {"send", "call"}, GmemSend(c, at)
    PROVE  BridgeInv'
<1>1. /\ ProgramRuns /\ c \in mapped /\ entry[c].status # 1 /\ sent[c] < MaxCommands
      /\ entry' = WithStatus(c, 1)
      /\ frames' = Pushed(at, c)
      /\ blame' = [blame EXCEPT ![c] = @ \cup SendCauses(c, at)]
      /\ UNCHANGED <<mapped, queue, spy, up, pipe, client, cmd, sig, box, sent>>
  BY DEF GmemSend, process, Blamed, NotBusy, WithStatus
<1>2. at \in Kinds
  BY DEF Kinds
<1>3. FramesOK' /\ Pushes(at, c) /\ Quiet
  BY <1>1, <1>2, PushStep
<1>4. TypeOK /\ ClientInv(c)
  BY DEF BridgeInv
<1>5. SendCauses(c, at) \subseteq Causes
  BY DEF SendCauses, Causes
<1>6. TypeOK'
  <2>1. entry' \in Entries
    BY <1>1, <1>4, StatusSet
  <2>2. blame' \in [Clients -> SUBSET Causes]
    BY <1>1, <1>4, <1>5 DEF TypeOK
  <2> QED
    BY <1>1, <1>3, <1>4, <2>1, <2>2 DEF TypeOK, FramesOK, Entries
<1>7. ASSUME NEW d \in Clients \ {c} PROVE Aside(d)
  <2>1. Kept(d)
    BY <1>1, <1>4, StatusSet, SameQueueAndSpies DEF Kept, Local, TypeOK
  <2>2. \A x : Doing(x, d)' <=> Doing(x, d)
    BY <1>3 DEF Pushes
  <2> QED
    BY <2>1, <2>2, AsideByFrames
<1>8. /\ entry'[c].status = 1 /\ blame'[c] = blame[c] \cup SendCauses(c, at)
  BY <1>1, <1>4, StatusSet DEF TypeOK
<1>9. ~Forking(c) /\ ~Sending(c) /\ ~Forking(c)' /\ Sending(c)'
  BY <1>3 DEF Pushes, Forking, Sending, Quiet, Blocking
<1>10. Shape(c)'
  <2>1. Shape(c)
    BY <1>4 DEF ClientInv
  <2>2. client[c] # "unborn" /\ client[c] # "starting" /\ box[c] # <<0>>
    BY <1>1, <1>9, <2>1 DEF Shape
  <2>3. client[c] = "stopped" => ~Good(c)'
    BY <1>8, <2>1 DEF Shape, Good, Blameless
  <2> QED
    BY <1>1, <1>9, <2>1, <2>2, <2>3 DEF Shape
<1>11. ASSUME Good(c)' PROVE Flight(c)' /\ Known(c)'
  <2>1. Good(c) /\ "early" \notin SendCauses(c, at)
    BY <1>8, <1>11 DEF Good, Blameless
  <2>2. Flight(c) /\ Known(c) /\ Shape(c)
    BY <1>4, <2>1 DEF ClientInv
  <2>3. ~Doing("exit", c) /\ (at = "send" => ~CallbackPending(c))
    BY <2>1 DEF SendCauses
  <2>4. ~Outstanding(c)
    BY <1>1, <2>2, <2>3 DEF Known
  <2>5. pipe[c] = <<>> /\ client[c] # "busy" /\ box[c] = <<>>
    BY <1>9, <2>2, <2>4 DEF Outstanding, Flight, Shape
  <2>6. Flight(c)'
    BY <1>1, <2>2 DEF Flight
  <2>7. ~Doing("exit", c)' /\ (CallbackPending(c)' => CallbackPending(c))
    BY <1>1, <1>3, <2>3, SameQueueAndSpies DEF Pushes, CallbackPending
  <2>8. Doing("send", c)' => at = "send"
    BY <1>3 DEF Pushes, Quiet, Blocking
  <2>9. Known(c)'
    BY <1>1, <1>8, <2>3, <2>5, <2>7, <2>8 DEF Known, Outstanding
  <2> QED
    BY <2>6, <2>9
<1>12. ClientInv(c)'
  BY <1>10, <1>11 DEF ClientInv
<1> QED
  BY <1>3, <1>6, <1>7, <1>12, Together

(* What Written does to the pipe. *)
LEMMA WrittenPipe ==
    ASSUME TypeOK, NEW c \in Clients, NEW command \in Commands \cup {Exit}, Written(c, command)
    PROVE  /\ pipe' \in [Clients -> Seq(Commands \cup {Exit})] /\ up' \in BOOLEAN
           /\ \A d \in Clients \ {c} : pipe'[d] = pipe[d]
           /\ client[c] = "gone" => pipe'[c] = pipe[c]
           /\ client[c] # "gone" =>
                /\ Len(pipe[c]) \in Nat /\ DOMAIN pipe[c] = 1 .. Len(pipe[c])
                /\ DOMAIN pipe'[c] = 1 .. Len(pipe[c]) + 1
                /\ pipe'[c][Len(pipe[c]) + 1] = command
                /\ \A i \in 1 .. Len(pipe[c]) : pipe'[c][i] = pipe[c][i]
<1>1. pipe[c] \in Seq(Commands \cup {Exit})
  BY DEF TypeOK
<1> DEFINE longer == Append(pipe[c], command)
<1>2. /\ longer \in Seq(Commands \cup {Exit})
      /\ Len(longer) = Len(pipe[c]) + 1 /\ Len(pipe[c]) \in Nat
      /\ longer[Len(pipe[c]) + 1] = command
      /\ \A i \in 1 .. Len(pipe[c]) : longer[i] = pipe[c][i]
  BY <1>1, PushSeq
<1>3. DOMAIN longer = 1 .. Len(pipe[c]) + 1 /\ DOMAIN pipe[c] = 1 .. Len(pipe[c])
  BY <1>1, <1>2, DomainSeq
<1>4. CASE client[c] = "gone"
  BY <1>4 DEF Written, TypeOK
<1>5. CASE client[c] # "gone"
  <2>1. pipe' = [pipe EXCEPT ![c] = longer] /\ up' = up
    BY <1>5 DEF Written
  <2> HIDE DEF longer
  <2> DEFINE P == Seq(Commands \cup {Exit})
  <2>2. longer \in P /\ pipe \in [Clients -> P] /\ up' \in BOOLEAN
    BY <1>2, <2>1 DEF TypeOK
  <2> HIDE DEF P
  <2>3. /\ pipe' \in [Clients -> P]
        /\ pipe'[c] = longer /\ \A d \in Clients \ {c} : pipe'[d] = pipe[d]
    BY <2>1, <2>2
  <2> QED
    BY <1>2, <1>3, <1>5, <2>2, <2>3 DEF P
<1> QED
  BY <1>4, <1>5

LEMMA WriteToClientStep ==
    ASSUME BridgeInv, NEW c \in Clients, NEW at \in {"send", "call"}, WriteToClient(c, at)
    PROVE  BridgeInv'
<1>1. /\ Top(at, c)
      /\ entry' = [entry EXCEPT ![c].nowait = (at = "send")]
      /\ sent' = [sent EXCEPT ![c] = @ + 1]
      /\ Written(c, sent[c] + 1)
      /\ UNCHANGED <<mapped, queue, spy, client, cmd, sig, box, blame>>
  BY DEF WriteToClient, process
<1>2. TypeOK /\ ClientInv(c)
  BY DEF BridgeInv
<1>3. at \in Kinds /\ at \in Blocking /\ "wait" \in Kinds
  BY DEF Kinds, Blocking
<1>4. Doing(at, c) /\ OnlyBlocks(at, c)
  BY <1>1, <1>3, Tops
<1>5. /\ FramesOK'
      /\ \A x, d : d # c => (Doing(x, d)' <=> Doing(x, d))
      /\ \A x : Doing(x, c)' => Doing(x, c) \/ x = "wait"
      /\ at = "call" => Doing("wait", c)'
      /\ \A x \in Blocking : Doing(x, c)' => x = "wait"
  <2>1. CASE at = "send"
    <3>1. frames' = Front(frames)
      BY <2>1 DEF WriteToClient
    <3>2. FramesOK' /\ Pops(at, c) /\ Quiet'
      BY <1>1, <1>3, <3>1, PopStep
    <3> QED
      BY <2>1, <3>2 DEF Pops, Quiet, Blocking
  <2>2. CASE at = "call"
    <3>1. frames' = With(Front(frames), "wait", c)
      BY <2>2 DEF WriteToClient, Replaced, With
    <3>2. /\ FramesOK'
          /\ \A y, e : Doing(y, e)' => Doing(y, e) \/ (y = "wait" /\ e = c)
          /\ \A y, e : Doing(y, e) => Doing(y, e)' \/ (y = at /\ e = c)
          /\ Doing("wait", c)'
          /\ \A y \in Blocking, e \in Clients : Doing(y, e)' => y = "wait" /\ e = c
      BY <1>1, <1>3, <3>1, SwapStep
    <3> QED
      BY <2>2, <3>2
  <2> QED
    BY <2>1, <2>2
<1>6. Sending(c) /\ ~Forking(c) /\ ~Forking(c)' /\ ~Sending(c)'
  BY <1>4, <1>5 DEF Sending, Forking, OnlyBlocks, Blocking
<1>7. /\ Shape(c) /\ c \in mapped /\ sent[c] \in Nat /\ sent[c] < MaxCommands
      /\ client[c] # "unborn" /\ client[c] # "starting" /\ box[c] # <<0>>
      /\ Exit \notin Range(pipe[c])
  BY <1>2, <1>6 DEF ClientInv, Shape, TypeOK, Commands
<1>8. sent[c] + 1 \in Commands /\ sent[c] + 1 # Exit
  BY <1>7, BoundsAssumption DEF Commands, Exit
<1>9. /\ pipe' \in [Clients -> Seq(Commands \cup {Exit})] /\ up' \in BOOLEAN
      /\ \A d \in Clients \ {c} : pipe'[d] = pipe[d]
      /\ client[c] = "gone" => pipe'[c] = pipe[c]
      /\ client[c] # "gone" =>
           /\ Len(pipe[c]) \in Nat /\ DOMAIN pipe[c] = 1 .. Len(pipe[c])
           /\ DOMAIN pipe'[c] = 1 .. Len(pipe[c]) + 1
           /\ pipe'[c][Len(pipe[c]) + 1] = sent[c] + 1
           /\ \A i \in 1 .. Len(pipe[c]) : pipe'[c][i] = pipe[c][i]
  BY <1>1, <1>2, <1>8, WrittenPipe
<1>10. TypeOK'
  <2>1. entry' \in Entries
    <3>1. entry \in Entries
      BY <1>2 DEF TypeOK, Entries
    <3> QED
      BY <1>1, <3>1 DEF Entries
  <2>2. sent' \in [Clients -> Commands \cup {0}]
    BY <1>1, <1>2, <1>8 DEF TypeOK
  <2> QED
    BY <1>1, <1>2, <1>5, <1>9, <2>1, <2>2 DEF TypeOK, FramesOK, Entries
<1>11. ASSUME NEW d \in Clients \ {c} PROVE Aside(d)
  <2>1. Kept(d)
    BY <1>1, <1>2, <1>9, SameQueueAndSpies DEF Kept, Local, TypeOK
  <2>2. \A x : Doing(x, d)' <=> Doing(x, d)
    BY <1>5
  <2> QED
    BY <2>1, <2>2, AsideByFrames
<1>12. entry'[c].status = entry[c].status /\ sent'[c] = sent[c] + 1
  BY <1>1, <1>2 DEF TypeOK
<1>13. Exit \notin Range(pipe'[c])
  <2>1. CASE client[c] = "gone"
    BY <1>7, <1>9, <2>1
  <2>2. CASE client[c] # "gone"
    <3>1. SUFFICES ASSUME NEW i \in DOMAIN pipe'[c] PROVE pipe'[c][i] # Exit
      BY DEF Range
    <3>2. CASE i = Len(pipe[c]) + 1
      BY <1>8, <1>9, <2>2, <3>2
    <3>3. CASE i # Len(pipe[c]) + 1
      <4>1. i \in DOMAIN pipe[c] /\ pipe'[c][i] = pipe[c][i]
        BY <1>9, <2>2, <3>3
      <4> QED
        BY <1>7, <4>1 DEF Range
    <3> QED
      BY <3>2, <3>3
  <2> QED
    BY <2>1, <2>2
<1>14. Shape(c)'
  <2>1. Range(pipe[c])' = Range(pipe'[c])
    OBVIOUS
  <2>2. client[c] = "stopped" => ~Good(c)'
    BY <1>1, <1>7 DEF Shape, Good, Blameless
  <2> QED
    BY <1>1, <1>6, <1>7, <1>13, <2>1, <2>2 DEF Shape
<1>15. ASSUME Good(c)' PROVE Flight(c)' /\ Known(c)'
  <2>1. Good(c) /\ Known(c)
    BY <1>1, <1>2, <1>15 DEF Good, Blameless, ClientInv
  <2>2. /\ pipe[c] = <<>> /\ client[c] # "busy" /\ box[c] = <<>>
        /\ entry[c].status = 1 /\ ~Doing("exit", c)
        /\ Doing("send", c) => ~CallbackPending(c)
    BY <1>6, <2>1 DEF Known
  <2>3. Len(pipe[c]) = 0
    BY <2>2, EmptySeq
  <2>4. client[c] # "gone" => DOMAIN pipe'[c] = {1} /\ pipe'[c][1] = sent[c] + 1
    BY <1>9, <2>3
  <2>5. Flight(c)'
    BY <1>1, <1>9, <1>12, <2>2, <2>4, EmptyPipe DEF Flight
  <2>6. CallbackPending(c)' => Doing("wait", c)'
    <3>1. CallbackPending(c)' => CallbackPending(c)
      BY <1>1, <1>5, SameQueueAndSpies DEF CallbackPending
    <3> QED
      BY <1>4, <1>5, <2>2, <3>1
  <2>7. Known(c)'
    BY <1>6, <1>12, <2>2, <2>6 DEF Known, Sending
  <2> QED
    BY <2>5, <2>7
<1>16. ClientInv(c)'
  BY <1>14, <1>15 DEF ClientInv
<1> QED
  BY <1>5, <1>10, <1>11, <1>16, Together

(* An answer in the queue leaves nothing else outstanding. *)
LEMMA AnswerAlone ==
    ASSUME NEW c \in Clients, Good(c), ClientInv(c), box[c] # <<>>, c \in mapped
    PROVE  pipe[c] = <<>> /\ client[c] # "busy" /\ ~Sending(c)
<1>1. Flight(c) /\ Known(c) /\ Exit \notin Range(pipe[c])
  BY DEF ClientInv, Shape
<1>2. client[c] # "busy" /\ ~Sending(c) /\ (pipe[c] # <<>> => pipe[c][1] = Exit)
  BY <1>1 DEF Flight, Known
<1>3. ASSUME pipe[c] # <<>> PROVE FALSE
  <2>1. pipe[c][1] = Exit
    BY <1>2, <1>3
  <2>2. 1 \in DOMAIN pipe[c]
    BY <1>1, <1>2, <1>3
  <2> QED
    BY <1>1, <2>1, <2>2 DEF Range
<1> QED
  BY <1>2, <1>3

LEMMA ReadClientWaitStep ==
    ASSUME BridgeInv, NEW c \in Clients, ReadClientWait(c)
    PROVE  BridgeInv'
<1>1. /\ Top("wait", c) /\ box[c] # <<>>
      /\ box' = [box EXCEPT ![c] = <<>>]
      /\ entry' = WithStatus(c, 2)
      /\ UNCHANGED <<mapped, queue, spy, up, pipe, client, cmd, sig, sent, blame>>
  BY DEF ReadClientWait, process, Waits, WithStatus
<1>2. TypeOK /\ ClientInv(c)
  BY DEF BridgeInv
<1>3. "wait" \in Kinds /\ "wait" \in Blocking /\ "callback" \in Kinds \ Blocking
  BY DEF Kinds, Blocking
<1>4. Doing("wait", c) /\ OnlyBlocks("wait", c)
  BY <1>1, <1>3, Tops
<1>5. /\ FramesOK'
      /\ \A x, d : d # c => (Doing(x, d)' <=> Doing(x, d))
      /\ \A x : Doing(x, c)' => Doing(x, c) \/ x = "callback"
      /\ Quiet'
      /\ Doing("exit", c) => Doing("exit", c)'
  <2>1. CASE c \notin WithCallback
    <3>1. frames' = Front(frames)
      BY <2>1 DEF ReadClientWait
    <3>2. FramesOK' /\ Pops("wait", c) /\ Quiet'
      BY <1>1, <1>3, <3>1, PopStep
    <3> QED
      BY <3>2 DEF Pops
  <2>2. CASE c \in WithCallback
    <3>1. frames' = With(Front(frames), "callback", c)
      BY <2>2 DEF ReadClientWait, Replaced, With
    <3>2. /\ FramesOK'
          /\ \A y, e : Doing(y, e)' => Doing(y, e) \/ (y = "callback" /\ e = c)
          /\ \A y, e : Doing(y, e) => Doing(y, e)' \/ (y = "wait" /\ e = c)
          /\ \A y \in Blocking, e \in Clients : Doing(y, e)' => y = "callback" /\ e = c
      BY <1>1, <1>3, <3>1, SwapStep
    <3>3. Quiet'
      BY <1>3, <3>2 DEF Quiet, Blocking
    <3> QED
      BY <3>2, <3>3
  <2> QED
    BY <2>1, <2>2
<1>6. entry' \in Entries /\ \A d \in Clients \ {c} : entry'[d] = entry[d]
  BY <1>1, <1>2, StatusSet
<1>7. box' \in [Clients -> Seq(Commands \cup {0})] /\ \A d \in Clients : Len(box'[d]) <= 1
  BY <1>1, <1>2, EmptySeq DEF TypeOK
<1>8. TypeOK'
  BY <1>1, <1>2, <1>5, <1>6, <1>7 DEF TypeOK, FramesOK, Entries
<1>9. ASSUME NEW d \in Clients \ {c} PROVE Aside(d)
  <2>1. Kept(d)
    BY <1>1, <1>2, <1>6, SameQueueAndSpies DEF Kept, Local, TypeOK
  <2>2. \A x : Doing(x, d)' <=> Doing(x, d)
    BY <1>5
  <2> QED
    BY <2>1, <2>2, AsideByFrames
<1>10. box'[c] = <<>>
  BY <1>1, <1>2 DEF TypeOK
<1>11. ~Forking(c) /\ ~Forking(c)' /\ ~Sending(c)'
  BY <1>4, <1>5 DEF Sending, Forking, OnlyBlocks, Blocking, Quiet
<1>12. Shape(c)'
  <2>1. Shape(c)
    BY <1>2 DEF ClientInv
  <2>2. client[c] # "unborn" /\ client[c] # "starting"
    BY <1>1, <1>11, <2>1 DEF Shape
  <2>3. Range(pipe[c])' = Range(pipe[c])
    BY <1>1
  <2>4. client[c] = "stopped" => ~Good(c)'
    BY <1>1, <2>1 DEF Shape, Good, Blameless
  <2> QED
    BY <1>1, <1>10, <1>11, <2>1, <2>2, <2>3, <2>4, EmptyPipe DEF Shape
<1>13. ASSUME Good(c)' PROVE Flight(c)' /\ Known(c)'
  <2>1. Good(c) /\ Flight(c) /\ Known(c)
    BY <1>1, <1>2, <1>13 DEF Good, Blameless, ClientInv
  <2>2. Flight(c)'
    BY <1>1, <1>10, <2>1, EmptyPipe DEF Flight
  <2>3. ~(c \in mapped' /\ Outstanding(c)')
    BY <1>1, <1>2, <1>10, <2>1, AnswerAlone DEF Outstanding
  <2>4. Known(c)'
    BY <1>11, <2>3 DEF Known, Sending
  <2> QED
    BY <2>2, <2>4
<1>14. ClientInv(c)'
  BY <1>12, <1>13 DEF ClientInv
<1> QED
  BY <1>5, <1>8, <1>9, <1>14, Together

(* The entry is idle again: nothing was outstanding. *)
LEMMA IdleInv ==
    ASSUME NEW c \in Clients, ClientInv(c), CallbackPending(c), Quiet, Quiet',
           c \in mapped' <=> c \in mapped, pipe'[c] = pipe[c], sent'[c] = sent[c],
           box'[c] = box[c], client'[c] = client[c], cmd'[c] = cmd[c],
           blame[c] \subseteq blame'[c], Doing("exit", c)' => Doing("exit", c),
           Doing("exit", c) => Doing("exit", c)' \/ ~Good(c)'
    PROVE  ClientInv(c)'
<1>1. ~Forking(c) /\ ~Sending(c) /\ ~Forking(c)' /\ ~Sending(c)' /\ ~Doing("wait", c)
  BY DEF Forking, Sending, Quiet, Blocking
<1>2. Good(c)' => Good(c)
  BY DEF Good, Blameless
<1>3. Shape(c)'
  <2>1. Shape(c)
    BY DEF ClientInv
  <2>2. Range(pipe[c])' = Range(pipe[c])
    OBVIOUS
  <2>3. client[c] = "stopped" => ~Good(c)'
    BY <1>2, <2>1 DEF Shape
  <2> QED
    BY <1>1, <2>1, <2>2, <2>3 DEF Shape
<1>4. ASSUME Good(c)' PROVE Flight(c)' /\ Known(c)'
  <2>1. Flight(c) /\ Known(c)
    BY <1>2, <1>4 DEF ClientInv
  <2>2. Flight(c)'
    BY <2>1 DEF Flight
  <2>3. c \in mapped /\ ~Doing("exit", c) => ~Outstanding(c)
    BY <1>1, <2>1 DEF Known
  <2>4. Outstanding(c)' <=> Outstanding(c)
    BY DEF Outstanding
  <2>5. ~(c \in mapped' /\ ~Doing("exit", c)' /\ Outstanding(c)')
    BY <1>4, <2>3, <2>4
  <2>6. Known(c)'
    BY <1>1, <2>5 DEF Known, Sending
  <2> QED
    BY <2>2, <2>6
<1> QED
  BY <1>3, <1>4 DEF ClientInv

(* What the end of a call-back, and an event, do to frames, queue, blame.  *)
Calm(d) ==
    /\ blame[d] \subseteq blame'[d]
    /\ d \in Range(queue)' => d \in Range(queue)
    /\ Doing("exit", d)' => Doing("exit", d)
    /\ Doing("exit", d) => Doing("exit", d)' \/ "cut" \in blame'[d]
    /\ Doing("callback", d)' => Doing("callback", d)
    /\ Doing("event", d)' => Doing("event", d) \/ d \in Range(queue)

Calms ==
    /\ FramesOK' /\ Quiet'
    /\ queue' \in Seq(Clients) /\ blame' \in [Clients -> SUBSET Causes]
    /\ \A d \in Clients : Calm(d)

LEMMA CalmAside ==
    ASSUME NEW d \in Clients, Quiet, Calms, spy' = spy,
           d \in mapped' <=> d \in mapped, entry'[d].status = entry[d].status,
           pipe'[d] = pipe[d], box'[d] = box[d], sent'[d] = sent[d],
           client'[d] = client[d], cmd'[d] = cmd[d]
    PROVE  Aside(d)
<1>1. Calm(d) /\ Quiet'
  BY DEF Calms
<1>2. SpyAt("report", d)' => SpyAt("report", d)
  BY DEF SpyAt
<1>3. Kept(d)
  BY <1>1, <1>2 DEF Kept, Local, Calm
<1>4. \A x \in Blocking : Doing(x, d)' <=> Doing(x, d)
  BY <1>1 DEF Quiet, Blocking
<1>5. Doing("exit", d) => Doing("exit", d)' \/ ~Good(d)'
  BY <1>1 DEF Calm, Good, Blameless
<1>6. CallbackPending(d)' => CallbackPending(d)
  BY <1>1, <1>2 DEF Calm, CallbackPending
<1> QED
  BY <1>1, <1>3, <1>4, <1>5, <1>6 DEF Aside, Calm, Kept

LEMMA ThrownCalms ==
    ASSUME BridgeInv, Thrown, queue' \in Seq(Clients), Range(queue') \subseteq Range(queue)
    PROVE  Calms
<1>1. /\ frames' = <<>>
      /\ blame' = [c \in Clients |-> blame[c] \cup {cause \in {"cut"} : Doing("exit", c)}]
  BY DEF Thrown
<1>2. FramesOK' /\ \A x, c : ~Doing(x, c)'
  BY <1>1, ThrowStep
<1>3. Quiet'
  BY <1>2 DEF Quiet, Blocking
<1>4. blame \in [Clients -> SUBSET Causes]
  BY DEF BridgeInv, TypeOK
<1>5. blame' \in [Clients -> SUBSET Causes]
  BY <1>1, <1>4 DEF Causes
<1>6. ASSUME NEW d \in Clients PROVE Calm(d)
  <2>1. blame[d] \subseteq blame'[d] /\ (Doing("exit", d) => "cut" \in blame'[d])
    BY <1>1
  <2>2. d \in Range(queue)' => d \in Range(queue)
    OBVIOUS
  <2> QED
    BY <1>2, <2>1, <2>2 DEF Calm
<1> QED
  BY <1>2, <1>3, <1>5, <1>6 DEF Calms

LEMMA TailRange ==
    ASSUME NEW S, NEW s \in Seq(S), s # <<>>
    PROVE  Tail(s) \in Seq(S) /\ Range(Tail(s)) \subseteq Range(s) /\ Head(s) \in Range(s) \cap S
<1>1. /\ Tail(s) \in Seq(S) /\ Head(s) = s[1] /\ Head(s) \in S /\ 1 \in DOMAIN s
      /\ \A i \in DOMAIN Tail(s) : i + 1 \in DOMAIN s /\ Tail(s)[i] = s[i + 1]
  BY TailOf
<1> QED
  BY <1>1 DEF Range

(* f: the frames below the call-back of an event. *)
LEMMA DispatchedCalms ==
    ASSUME BridgeInv, NEW f \in Seq(Frames), Free(f), Len(f) <= MaxDepth, Dispatched(f),
           \A x, d : Has(f, x, d) => Doing(x, d),
           \A d : Doing("exit", d) => Has(f, "exit", d)
    PROVE  Calms
<1>1. /\ queue \in Seq(Clients) /\ blame \in [Clients -> SUBSET Causes]
      /\ f # <<>> => Len(f) \in Nat
  BY DEF BridgeInv, TypeOK
<1>2. CASE queue = <<>>
  <2>1. frames' = f /\ queue' = queue /\ blame' = blame
    BY <1>2 DEF Dispatched
  <2>2. FramesOK'
    <3>1. Settled(f) /\ Len(f) <= MaxDepth + 1
      BY FreeFrames, BoundsAssumption
    <3> QED
      BY <2>1, <3>1 DEF FramesOK, Settled
  <2>3. Quiet'
    <3>1. \A x \in Blocking, d \in Clients : ~Has(frames', x, d)
      BY <2>1, FreeFrames
    <3> QED
      BY <3>1, DoingHas DEF Quiet, Blocking
  <2>4. ASSUME NEW d \in Clients PROVE Calm(d)
    BY <2>1, DoingHas DEF Calm, Range
  <2> QED
    BY <1>1, <2>1, <2>2, <2>3, <2>4 DEF Calms
<1>3. CASE queue # <<>>
  <2> DEFINE h == Head(queue)
  <2>1. queue' = Tail(queue)
    BY <1>3 DEF Dispatched
  <2>2. queue' \in Seq(Clients) /\ Range(queue') \subseteq Range(queue)
        /\ h \in Range(queue) \cap Clients
    BY <1>1, <1>3, <2>1, TailRange
  <2>3. CASE h \notin mapped
    <3>1. Thrown
      BY <1>3, <2>3 DEF Dispatched
    <3> QED
      BY <2>2, <3>1, ThrownCalms
  <2>4. CASE h \in mapped
    <3> DEFINE g == frames'
    <3>1. g = With(f, "event", h) /\ blame' = blame
      BY <1>3, <2>4 DEF Dispatched, With
    <3>2. "event" \in Kinds \ Blocking
      BY DEF Kinds, Blocking
    <3> HIDE DEF g, h
    <3>3. /\ g \in Seq(Frames) /\ Len(g) = Len(f) + 1 /\ Len(f) \in Nat
          /\ \A y, d : Has(g, y, d) <=> Has(f, y, d) \/ (y = "event" /\ d = h)
          /\ Settled(g) /\ Free(g)
      BY <2>2, <3>1, <3>2, PushedFrame
    <3>4. FramesOK'
      <4>1. Len(g) <= MaxDepth + 1
        BY <3>3, BoundsAssumption
      <4> QED
        BY <3>3, <4>1 DEF FramesOK, Settled, g
    <3>5. Quiet'
      <4>1. \A x \in Blocking, d \in Clients : ~Has(g, x, d)
        BY <3>3, FreeFrames
      <4> QED
        BY <4>1, DoingHas DEF Quiet, Blocking, g
    <3>6. \A x, d : Doing(x, d)' <=> Has(f, x, d) \/ (x = "event" /\ d = h)
      BY <3>3, DoingHas DEF g
    <3>7. ASSUME NEW d \in Clients PROVE Calm(d)
      <4>1. d \in Range(queue)' => d \in Range(queue)
        BY <2>2
      <4> QED
        BY <2>2, <3>1, <3>6, <4>1 DEF Calm
    <3> QED
      BY <1>1, <2>2, <3>1, <3>4, <3>5, <3>7 DEF Calms
  <2> QED
    BY <2>3, <2>4
<1> QED
  BY <1>2, <1>3

LEMMA IdleSet ==
    ASSUME TypeOK, NEW c \in Clients, entry' = [entry EXCEPT ![c] = Idle]
    PROVE  entry' \in Entries /\ \A d \in Clients \ {c} : entry'[d] = entry[d]
<1>1. entry \in Entries /\ Idle \in [status : 0 .. 2, nowait : BOOLEAN]
  BY DEF TypeOK, Entries, Idle
<1> QED
  BY <1>1 DEF Entries

(* The call-back of c is over, and its entry idle if it is there.          *)
LEMMA CalmStep ==
    ASSUME BridgeInv, NEW c \in Clients, Quiet, Calms, CallbackPending(c),
           \/ entry' = entry
           \/ entry' = [entry EXCEPT ![c] = Idle],
           UNCHANGED <<mapped, spy, up, pipe, client, cmd, sig, box, sent>>
    PROVE  BridgeInv'
<1>1. TypeOK /\ ClientInv(c)
  BY DEF BridgeInv
<1>2. entry' \in Entries /\ \A d \in Clients \ {c} : entry'[d] = entry[d]
  <2>1. CASE entry' = entry
    BY <1>1, <2>1 DEF TypeOK, Entries
  <2>2. CASE entry' = [entry EXCEPT ![c] = Idle]
    BY <1>1, <2>2, IdleSet
  <2> QED
    BY <2>1, <2>2
<1>3. TypeOK'
  BY <1>1, <1>2 DEF TypeOK, Calms, FramesOK, Entries
<1>4. ASSUME NEW d \in Clients \ {c} PROVE Aside(d)
  BY <1>2, CalmAside
<1>5. ClientInv(c)'
  <2>1. Calm(c) /\ Quiet'
    BY DEF Calms
  <2>2. blame[c] \subseteq blame'[c] /\ (Doing("exit", c)' => Doing("exit", c))
    BY <2>1 DEF Calm
  <2>3. Doing("exit", c) => Doing("exit", c)' \/ ~Good(c)'
    BY <2>1 DEF Calm, Good, Blameless
  <2> QED
    BY <1>1, <2>1, <2>2, <2>3, IdleInv
<1> QED
  BY <1>3, <1>4, <1>5, Together DEF Calms

LEMMA CallbackDoneStep ==
    ASSUME BridgeInv, NEW c \in Clients, CallbackDone(c)
    PROVE  BridgeInv'
<1>1. /\ Top("callback", c)
      /\ UNCHANGED <<mapped, queue, spy, up, pipe, client, cmd, sig, box, sent>>
  BY DEF CallbackDone, process
<1>2. "callback" \in Kinds \ Blocking
  BY DEF Kinds, Blocking
<1>3. Quiet /\ Doing("callback", c)
  BY <1>1, <1>2, Tops
<1>4. TypeOK
  BY DEF BridgeInv
<1>5. CASE c \in mapped
  <2>1. /\ frames' = Front(frames) /\ blame' = blame
        /\ entry' = [entry EXCEPT ![c] = Idle]
    BY <1>5 DEF CallbackDone
  <2>2. FramesOK' /\ Pops("callback", c) /\ Quiet'
    BY <1>1, <1>2, <2>1, PopStep
  <2>3. ASSUME NEW d \in Clients PROVE Calm(d)
    BY <1>1, <2>1, <2>2 DEF Calm, Pops, Range
  <2>4. Calms
    BY <1>1, <1>4, <2>1, <2>2, <2>3 DEF Calms, TypeOK
  <2> QED
    BY <1>1, <1>3, <2>1, <2>4, CalmStep DEF CallbackPending
<1>6. CASE c \notin mapped
  <2>1. Thrown /\ entry' = entry
    BY <1>6 DEF CallbackDone
  <2>2. Calms
    BY <1>1, <1>4, <2>1, ThrownCalms DEF TypeOK
  <2> QED
    BY <1>1, <1>3, <2>1, <2>2, CalmStep DEF CallbackPending
<1> QED
  BY <1>5, <1>6

LEMMA EventDoneStep ==
    ASSUME BridgeInv, NEW c \in Clients, EventDone(c)
    PROVE  BridgeInv'
<1>1. /\ Top("event", c)
      /\ UNCHANGED <<mapped, spy, up, pipe, client, cmd, sig, box, sent>>
  BY DEF EventDone, process
<1>2. "event" \in Kinds \ Blocking
  BY DEF Kinds, Blocking
<1>3. Quiet /\ Doing("event", c)
  BY <1>1, <1>2, Tops
<1>4. TypeOK
  BY DEF BridgeInv
<1>5. CASE c \in mapped
  <2>1. entry' = [entry EXCEPT ![c] = Idle] /\ Dispatched(Front(frames))
    BY <1>5 DEF EventDone
  <2>2. /\ frames \in Seq(Frames) /\ Settled(frames) /\ frames # <<>>
        /\ Len(frames) <= MaxDepth + 1 /\ Last(frames) = [at |-> "event", on |-> c]
    BY <1>1 DEF BridgeInv, TypeOK, Top
  <2> DEFINE f == Front(frames)
  <2>3. /\ f \in Seq(Frames) /\ Len(f) = Len(frames) - 1 /\ Len(frames) \in Nat
        /\ \A y, d : Has(f, y, d) => Has(frames, y, d)
        /\ \A y, d : Has(frames, y, d) => Has(f, y, d) \/ (y = "event" /\ d = c)
        /\ Free(f)
    BY <2>2, PoppedFrame
  <2> HIDE DEF f
  <2>4. Len(f) <= MaxDepth
    BY <2>2, <2>3, BoundsAssumption
  <2>5. Dispatched(f)
    BY <2>1 DEF f
  <2>6. /\ \A y, d : Has(f, y, d) => Doing(y, d)
        /\ \A d : Doing("exit", d) => Has(f, "exit", d)
    BY <2>3, DoingHas
  <2>7. Calms
    BY <2>3, <2>4, <2>5, <2>6, DispatchedCalms
  <2> QED
    BY <1>1, <1>3, <2>1, <2>7, CalmStep DEF CallbackPending
<1>6. CASE c \notin mapped
  <2>1. Thrown /\ entry' = entry /\ queue' = queue
    BY <1>6 DEF EventDone
  <2>2. Calms
    BY <1>4, <2>1, ThrownCalms DEF TypeOK
  <2> QED
    BY <1>1, <1>3, <2>1, <2>2, CalmStep DEF CallbackPending
<1> QED
  BY <1>5, <1>6

LEMMA EventDispatcherStep ==
    ASSUME BridgeInv, EventDispatcher
    PROVE  BridgeInv'
<1>1. /\ ProgramRuns /\ queue # <<>> /\ Dispatched(frames)
      /\ UNCHANGED <<mapped, entry, spy, up, pipe, client, cmd, sig, box, sent>>
  BY DEF EventDispatcher, process
<1>2. Free(frames) /\ Quiet /\ Len(frames) < MaxDepth /\ frames \in Seq(Frames)
  BY <1>1, Programs
<1>3. Len(frames) <= MaxDepth
  BY <1>2, BoundsAssumption, DomainSeq
<1>4. Calms
  BY <1>1, <1>2, <1>3, DoingHas, DispatchedCalms
<1>5. PICK c \in Clients : c \in Range(queue)
  BY <1>1, TailRange DEF BridgeInv, TypeOK
<1> QED
  BY <1>1, <1>2, <1>4, <1>5, CalmStep DEF CallbackPending

(* A program calls for c what leaves c's own state alone.                  *)
LEMMA QuietInv ==
    ASSUME NEW c \in Clients, ClientInv(c), Quiet, c \in mapped, mapped' = mapped,
           pipe'[c] = pipe[c], sent'[c] = sent[c], box'[c] = box[c],
           client'[c] = client[c], cmd'[c] = cmd[c], blame[c] \subseteq blame'[c],
           ~Forking(c)', ~Sending(c)',
           Good(c) /\ Known(c) /\ Outstanding(c) /\ ~Doing("exit", c)' =>
              entry'[c].status = 1 /\ (CallbackPending(c)' => Doing("wait", c)')
    PROVE  ClientInv(c)'
<1>1. ~Forking(c)
  BY DEF Forking, Quiet, Blocking
<1>2. Good(c)' => Good(c)
  BY DEF Good, Blameless
<1>3. Shape(c)'
  <2>1. Shape(c)
    BY DEF ClientInv
  <2>2. Range(pipe[c])' = Range(pipe[c])
    OBVIOUS
  <2>3. client[c] = "stopped" => ~Good(c)'
    BY <1>2, <2>1 DEF Shape
  <2> QED
    BY <1>1, <2>1, <2>2, <2>3 DEF Shape
<1>4. ASSUME Good(c)' PROVE Flight(c)' /\ Known(c)'
  <2>1. Flight(c) /\ Known(c) /\ Good(c)
    BY <1>2, <1>4 DEF ClientInv
  <2>2. Flight(c)'
    BY <2>1 DEF Flight
  <2>3. Outstanding(c)' <=> Outstanding(c)
    BY DEF Outstanding
  <2>4. Known(c)'
    BY <2>1, <2>3 DEF Known, Sending
  <2> QED
    BY <2>2, <2>4
<1> QED
  BY <1>3, <1>4 DEF ClientInv

LEMMA GmemStatusStep ==
    ASSUME BridgeInv, NEW c \in Clients, GmemStatus(c)
    PROVE  BridgeInv'
<1>1. /\ ProgramRuns /\ c \in mapped /\ entry[c].status = 2
      /\ entry' = WithStatus(c, 0)
      /\ UNCHANGED <<mapped, frames, queue, spy, up, pipe, client, cmd, sig, box, sent, blame>>
  BY DEF GmemStatus, Forgets, WithStatus, process
<1>2. TypeOK /\ ClientInv(c) /\ Settled(frames)
  BY DEF BridgeInv
<1>3. entry' \in Entries /\ \A d \in Clients \ {c} : entry'[d] = entry[d]
  BY <1>1, <1>2, StatusSet
<1>4. Quiet
  BY <1>1, Programs
<1>5. TypeOK' /\ FramesOK'
  BY <1>1, <1>2, <1>3 DEF TypeOK, FramesOK, Entries, Settled
<1>6. ASSUME NEW d \in Clients \ {c} PROVE Aside(d)
  <2>1. Kept(d)
    BY <1>1, <1>3, SameQueueAndSpies DEF Kept, Local
  <2> QED
    BY <1>1, <2>1, AsideAlone
<1>7. \A x : Doing(x, c)' <=> Doing(x, c)
  BY <1>1 DEF Doing
<1>8. ~Forking(c)' /\ ~Sending(c)'
  BY <1>4, <1>7 DEF Forking, Sending, Quiet, Blocking
<1>9. ~(Known(c) /\ Outstanding(c) /\ ~Doing("exit", c)')
  BY <1>1, <1>7 DEF Known
<1>10. ClientInv(c)'
  BY <1>1, <1>2, <1>4, <1>8, <1>9, QuietInv
<1> QED
  BY <1>5, <1>6, <1>10, Together

LEMMA GmemAbortStep ==
    ASSUME BridgeInv, NEW c \in Clients, GmemAbort(c)
    PROVE  BridgeInv'
<1>1. /\ ProgramRuns /\ c \in mapped
      /\ entry' = [entry EXCEPT ![c] = [status |-> 1, nowait |-> FALSE]]
      /\ sig' = [sig EXCEPT ![c] = (client[c] = "busy")]
      /\ frames' = Pushed("wait", c)
      /\ blame' = [blame EXCEPT ![c] = @ \cup AbortCauses(c)]
      /\ UNCHANGED <<mapped, queue, spy, up, pipe, client, cmd, box, sent>>
  BY DEF GmemAbort, Interrupt, Blamed
<1>2. TypeOK /\ ClientInv(c)
  BY DEF BridgeInv
<1>3. "wait" \in Kinds
  BY DEF Kinds
<1>4. FramesOK' /\ Pushes("wait", c) /\ Quiet
  BY <1>1, <1>3, PushStep
<1>5. /\ entry' \in Entries /\ entry'[c].status = 1
      /\ \A d \in Clients \ {c} : entry'[d] = entry[d]
  BY <1>1, <1>2 DEF TypeOK, Entries
<1>6. /\ blame' \in [Clients -> SUBSET Causes]
      /\ \A d \in Clients : blame[d] \subseteq blame'[d]
  <2>1. AbortCauses(c) \subseteq Causes
    BY DEF AbortCauses, Causes
  <2> QED
    BY <1>1, <1>2, <2>1 DEF TypeOK
<1>7. sig' \in [Clients -> BOOLEAN]
  BY <1>1, <1>2 DEF TypeOK
<1>8. TypeOK'
  BY <1>1, <1>2, <1>4, <1>5, <1>6, <1>7 DEF TypeOK, FramesOK, Entries
<1>9. ASSUME NEW d \in Clients \ {c} PROVE Aside(d)
  <2>1. Kept(d)
    BY <1>1, <1>5, <1>6, SameQueueAndSpies DEF Kept, Local
  <2>2. \A x : Doing(x, d)' <=> Doing(x, d)
    BY <1>4 DEF Pushes
  <2> QED
    BY <2>1, <2>2, AsideByFrames
<1>10. ~Forking(c)' /\ ~Sending(c)' /\ Doing("wait", c)'
  BY <1>4 DEF Pushes, Forking, Sending, Quiet, Blocking
<1>11. ClientInv(c)'
  BY <1>1, <1>2, <1>4, <1>5, <1>6, <1>10, QuietInv
<1> QED
  BY <1>4, <1>8, <1>9, <1>11, Together

LEMMA GmemExitStep ==
    ASSUME BridgeInv, NEW c \in Clients, GmemExit(c)
    PROVE  BridgeInv'
<1>1. /\ ProgramRuns /\ c \in mapped
      /\ UNCHANGED <<mapped, queue, spy, up, pipe, client, cmd, box, sent, blame>>
  BY DEF GmemExit
<1>2. TypeOK /\ ClientInv(c)
  BY DEF BridgeInv
<1>3. /\ FramesOK' /\ Quiet
      /\ \A x, d : Doing(x, d) => Doing(x, d)'
      /\ \A x, d : Doing(x, d)' => Doing(x, d) \/ (x \in {"exit", "callback"} /\ d = c)
      /\ Doing("exit", c)'
  <2>1. CASE frames' = Pushed("exit", c)
    <3>1. "exit" \in Kinds
      BY DEF Kinds
    <3>2. FramesOK' /\ Pushes("exit", c) /\ Quiet
      BY <1>1, <2>1, <3>1, PushStep
    <3> QED
      BY <3>2 DEF Pushes
  <2>2. CASE frames' = Append(Pushed("exit", c), [at |-> "callback", on |-> c])
    <3>1. /\ FramesOK' /\ Quiet
          /\ \A y, d : Doing(y, d)' <=>
               Doing(y, d) \/ (y \in {"exit", "callback"} /\ d = c)
      BY <1>1, <2>2, PushTwo
    <3> QED
      BY <3>1
  <2> QED
    BY <2>1, <2>2 DEF GmemExit
<1>4. /\ entry' \in Entries /\ \A d \in Clients \ {c} : entry'[d] = entry[d]
      /\ sig' \in [Clients -> BOOLEAN]
  <2>1. CASE NotBusy(c)
    BY <1>2, <2>1 DEF GmemExit, TypeOK, Entries
  <2>2. CASE ~NotBusy(c)
    <3>1. entry' = WithStatus(c, 2) /\ sig' = [sig EXCEPT ![c] = (client[c] = "busy")]
      BY <2>2 DEF GmemExit, Interrupt, WithStatus
    <3>2. entry' \in Entries /\ \A d \in Clients \ {c} : entry'[d] = entry[d]
      BY <1>2, <3>1, StatusSet
    <3> QED
      BY <1>2, <3>1, <3>2 DEF TypeOK
  <2> QED
    BY <2>1, <2>2
<1>5. TypeOK'
  BY <1>1, <1>2, <1>3, <1>4 DEF TypeOK, FramesOK, Entries
<1>6. ASSUME NEW d \in Clients \ {c} PROVE Aside(d)
  <2>1. Kept(d)
    BY <1>1, <1>4, SameQueueAndSpies DEF Kept, Local
  <2>2. \A x : Doing(x, d)' <=> Doing(x, d)
    BY <1>3
  <2> QED
    BY <2>1, <2>2, AsideByFrames
<1>7. ~Forking(c)' /\ ~Sending(c)'
  BY <1>3 DEF Forking, Sending, Quiet, Blocking
<1>8. ClientInv(c)'
  BY <1>1, <1>2, <1>3, <1>7, QuietInv
<1> QED
  BY <1>3, <1>5, <1>6, <1>8, Together

LEMMA GmemExitDoneStep ==
    ASSUME BridgeInv, NEW c \in Clients, GmemExitDone(c)
    PROVE  BridgeInv'
<1>1. /\ Top("exit", c) /\ Written(c, Exit)
      /\ mapped' = mapped \ {c}
      /\ entry' = [entry EXCEPT ![c] = Idle]
      /\ frames' = Front(frames)
      /\ UNCHANGED <<queue, spy, client, cmd, sig, box, sent, blame>>
  BY DEF GmemExitDone, process
<1>2. TypeOK /\ ClientInv(c)
  BY DEF BridgeInv
<1>3. "exit" \in Kinds \ Blocking
  BY DEF Kinds, Blocking
<1>4. FramesOK' /\ Pops("exit", c) /\ Quiet' /\ Quiet /\ Doing("exit", c)
  BY <1>1, <1>3, PopStep, Tops
<1>5. entry' \in Entries /\ \A d \in Clients \ {c} : entry'[d] = entry[d]
  BY <1>1, <1>2, IdleSet
<1>6. /\ pipe' \in [Clients -> Seq(Commands \cup {Exit})] /\ up' \in BOOLEAN
      /\ \A d \in Clients \ {c} : pipe'[d] = pipe[d]
      /\ client[c] = "gone" => pipe'[c] = pipe[c]
      /\ client[c] # "gone" =>
           /\ Len(pipe[c]) \in Nat /\ DOMAIN pipe[c] = 1 .. Len(pipe[c])
           /\ DOMAIN pipe'[c] = 1 .. Len(pipe[c]) + 1
           /\ pipe'[c][Len(pipe[c]) + 1] = Exit
           /\ \A i \in 1 .. Len(pipe[c]) : pipe'[c][i] = pipe[c][i]
  BY <1>1, <1>2, WrittenPipe
<1>7. TypeOK'
  BY <1>1, <1>2, <1>4, <1>5, <1>6 DEF TypeOK, FramesOK, Entries
<1>8. ASSUME NEW d \in Clients \ {c} PROVE Aside(d)
  <2>1. Kept(d)
    BY <1>1, <1>5, <1>6, SameQueueAndSpies DEF Kept, Local
  <2>2. \A x : Doing(x, d)' <=> Doing(x, d)
    BY <1>4 DEF Pops
  <2> QED
    BY <2>1, <2>2, AsideByFrames
<1>9. ~Forking(c) /\ ~Forking(c)' /\ ~Sending(c)' /\ c \notin mapped'
  BY <1>1, <1>4 DEF Forking, Sending, Quiet, Blocking
<1>10. Shape(c) /\ client[c] \notin {"unborn", "starting"}
  BY <1>2, <1>4, <1>9 DEF ClientInv, Shape
<1>11. Shape(c)'
  <2>1. client[c] = "stopped" => ~Good(c)'
    BY <1>1, <1>10 DEF Shape, Good, Blameless
  <2> QED
    BY <1>1, <1>9, <1>10, <2>1 DEF Shape
<1>12. ASSUME Good(c)' PROVE Flight(c)' /\ Known(c)'
  <2>1. Flight(c)
    BY <1>1, <1>2, <1>12 DEF Good, Blameless, ClientInv
  <2>2. Known(c)'
    BY <1>9 DEF Known, Sending
  <2>3. CASE client[c] = "gone"
    BY <1>1, <1>6, <2>1, <2>2, <2>3 DEF Flight
  <2>4. CASE client[c] # "gone"
    <3>1. \A i \in DOMAIN pipe'[c] : pipe'[c][i] = Exit \/ (i = 1 /\ pipe'[c][i] = sent'[c])
      <4>1. SUFFICES ASSUME NEW i \in 1 .. Len(pipe[c]) + 1
                     PROVE  pipe'[c][i] = Exit \/ (i = 1 /\ pipe'[c][i] = sent[c])
        BY <1>1, <1>6, <2>4
      <4>2. CASE i = Len(pipe[c]) + 1
        BY <1>6, <2>4, <4>2
      <4>3. CASE i # Len(pipe[c]) + 1
        <5>1. i \in DOMAIN pipe[c] /\ pipe'[c][i] = pipe[c][i]
          BY <1>6, <2>4, <4>3
        <5> QED
          BY <2>1, <5>1 DEF Flight
      <4> QED
        BY <4>2, <4>3
    <3>2. pipe'[c][1] # Exit => pipe[c] # <<>> /\ pipe[c][1] # Exit
      <4>1. ASSUME pipe'[c][1] # Exit PROVE 1 \in 1 .. Len(pipe[c])
        BY <1>6, <2>4, <4>1
      <4>2. pipe[c] = <<>> => Len(pipe[c]) = 0
        BY EmptySeq
      <4> QED
        BY <1>6, <2>4, <4>1, <4>2
    <3> QED
      BY <1>1, <2>1, <2>2, <3>1, <3>2 DEF Flight
  <2> QED
    BY <2>2, <2>3, <2>4
<1>13. ClientInv(c)'
  BY <1>11, <1>12 DEF ClientInv
<1> QED
  BY <1>4, <1>7, <1>8, <1>13, Together

-----------------------------------------------------------------------------
(* Steps of a spy *)

Places == [at : {"off", "loop", "scan", "read", "report"}, on : Clients]

LEMMA Smallest ==
    ASSUME NEW S, S \subseteq Nat, S # {}
    PROVE  Min(S) \in S
<1> DEFINE Under == {p \in Nat \X Nat : p[1] < p[2]}
<1>1. IsWellFoundedOn(Under, Nat)
  BY NatLessThanWellFounded, Zenon DEF OpToRel
<1>2. \A i, j \in Nat : i < j => <<i, j>> \in Under
  OBVIOUS
<1> HIDE DEF Under
<1>3. PICK m \in S : \A i \in S : ~(<<i, m>> \in Under)
  BY <1>1, WFMin
<1>4. \A i \in S : m <= i
  <2>1. \A i \in S : i \in Nat /\ m \in Nat /\ ~(i < m)
    BY <1>2, <1>3
  <2> QED
    BY <2>1
<1> QED
  BY <1>4 DEF Min

LEMMA AfterPlace ==
    ASSUME BridgeInv, NEW s \in Spies
    PROVE  After(s) \in Places /\ After(s).at # "report"
<1> DEFINE later == {c \in mapped : c > spy[s].on}
<1>1. later \subseteq Clients /\ Clients \subseteq Nat /\ Clients # {}
  BY ClientsAssumption DEF BridgeInv, TypeOK
<1>2. CASE later = {}
  <2>1. Min(Clients) \in Clients
    BY <1>1, Smallest
  <2> QED
    BY <1>2, <2>1 DEF After, Places
<1>3. CASE later # {}
  <2>1. later \subseteq Nat
    BY <1>1
  <2> HIDE DEF later
  <2>2. Min(later) \in Clients
    BY <1>1, <1>3, <2>1, Smallest
  <2>3. After(s) = [at |-> "scan", on |-> Min(later)]
    BY <1>3 DEF After, later
  <2> QED
    BY <2>2, <2>3 DEF Places
<1> QED
  BY <1>2, <1>3

(* A spy that goes on, and reports nothing new. *)
LEMMA SpyOn ==
    ASSUME BridgeInv, NEW s \in Spies, NEW p \in Places, spy' = [spy EXCEPT ![s] = p]
    PROVE  /\ spy' \in [Spies -> Places]
           /\ \A d : SpyAt("report", d)' => SpyAt("report", d) \/ p = [at |-> "report", on |-> d]
<1>1. spy \in [Spies -> Places]
  BY DEF BridgeInv, TypeOK, Places
<1>2. ASSUME NEW d, SpyAt("report", d)'
      PROVE  SpyAt("report", d) \/ p = [at |-> "report", on |-> d]
  <2>1. PICK t \in Spies : spy'[t] = [at |-> "report", on |-> d]
    BY <1>2 DEF SpyAt
  <2>2. CASE t = s
    BY <1>1, <2>1, <2>2
  <2>3. CASE t # s
    BY <1>1, <2>1, <2>3 DEF SpyAt
  <2> QED
    BY <2>2, <2>3
<1> QED
  BY <1>1, <1>2

(* A step that leaves all of the clients' state alone. *)
LEMMA OnlySpies ==
    ASSUME BridgeInv, spy' \in [Spies -> Places], up' \in BOOLEAN, queue' \in Seq(Clients),
           UNCHANGED <<mapped, entry, frames, pipe, client, cmd, sig, box, sent, blame>>,
           \A d \in Clients : SpyAt("report", d)' => SpyAt("report", d),
           \A d \in Clients : d \in Range(queue)' =>
              d \in Range(queue) \/ (d \in WithCallback /\ SpyAt("report", d))
    PROVE  BridgeInv'
<1>1. TypeOK' /\ FramesOK'
  BY DEF BridgeInv, TypeOK, FramesOK, Places, Settled
<1>2. ASSUME NEW d \in Clients PROVE Aside(d)
  <2>1. \A x : Doing(x, d)' <=> Doing(x, d)
    BY DEF Doing
  <2>2. CallbackPending(d)' => CallbackPending(d)
    BY <2>1 DEF CallbackPending
  <2> QED
    BY <2>1, <2>2 DEF Aside, Local
<1> QED
  BY <1>1, <1>2, AllAside

(* The spy takes the answer of c out of the queue. *)
LEMMA SpyTakes ==
    ASSUME BridgeInv, NEW s \in Spies, NEW c \in Clients, spy[s].on = c,
           SpyRead(s), box[c] # <<>>
    PROVE  BridgeInv'
<1> DEFINE p == [spy[s] EXCEPT !.at = "report"]
<1>1. /\ TypeOK /\ c \in mapped /\ box[c] # <<>>
      /\ spy \in [Spies -> Places] /\ spy[s] \in Places /\ spy[s].on = c
  BY DEF BridgeInv, TypeOK, Places, SpyRead
<1>2. /\ box' = [box EXCEPT ![c] = <<>>]
      /\ entry' = WithStatus(c, 2)
      /\ spy' = [spy EXCEPT ![s] = p]
      /\ UNCHANGED <<mapped, frames, queue, up, pipe, client, cmd, sig, sent, blame>>
  BY <1>1 DEF SpyRead, SpyMoves, process, WithStatus
<1>3. p \in Places /\ p.on = c
  BY <1>1 DEF Places
<1>4. \A d : p = [at |-> "report", on |-> d] => d = c
  BY <1>3
<1> HIDE DEF p
<1>5. spy' \in [Spies -> Places] /\ \A d : SpyAt("report", d)' => SpyAt("report", d) \/ d = c
  BY <1>2, <1>3, <1>4, SpyOn
<1>6. entry' \in Entries /\ \A d \in Clients \ {c} : entry'[d] = entry[d]
  BY <1>1, <1>2, StatusSet
<1>7. box' \in [Clients -> Seq(Commands \cup {0})] /\ \A d \in Clients : Len(box'[d]) <= 1
  BY <1>1, <1>2, EmptySeq DEF TypeOK
<1>8. TypeOK' /\ FramesOK'
  BY <1>2, <1>5, <1>6, <1>7 DEF BridgeInv, TypeOK, FramesOK, Entries, Places, Settled
<1>9. \A x, d : Doing(x, d)' <=> Doing(x, d)
  BY <1>2 DEF Doing
<1>10. ASSUME NEW d \in Clients \ {c} PROVE Aside(d)
  <2>1. d \in Range(queue)' => d \in Range(queue)
    BY <1>2 DEF Range
  <2>2. Kept(d)
    BY <1>1, <1>2, <1>5, <1>6, <2>1 DEF Kept, Local, TypeOK
  <2> QED
    BY <1>9, <2>2, AsideByFrames
<1>11. ClientInv(c) /\ box'[c] = <<>>
  BY <1>1, <1>2 DEF BridgeInv, TypeOK
<1>12. (Forking(c)' <=> Forking(c)) /\ (Sending(c)' <=> Sending(c))
  BY <1>9 DEF Forking, Sending
<1>13. Shape(c)'
  <2>1. Shape(c) /\ client[c] # "unborn" /\ client[c] # "starting"
    BY <1>1, <1>11 DEF ClientInv, Shape
  <2>2. Range(pipe[c])' = Range(pipe[c])
    BY <1>2
  <2>3. client[c] = "stopped" => ~Good(c)'
    BY <1>2, <2>1 DEF Shape, Good, Blameless
  <2> QED
    BY <1>2, <1>11, <1>12, <2>1, <2>2, <2>3, EmptyPipe DEF Shape
<1>14. ASSUME Good(c)' PROVE Flight(c)' /\ Known(c)'
  <2>1. Good(c) /\ Flight(c) /\ Known(c)
    BY <1>2, <1>11, <1>14 DEF Good, Blameless, ClientInv
  <2>2. Flight(c)'
    BY <1>2, <1>11, <2>1, EmptyPipe DEF Flight
  <2>3. pipe[c] = <<>> /\ client[c] # "busy" /\ ~Sending(c)
    BY <1>1, <1>11, <2>1, AnswerAlone
  <2>4. Known(c)'
    BY <1>2, <1>11, <1>12, <2>3 DEF Known, Sending, Outstanding
  <2> QED
    BY <2>2, <2>4
<1>15. ClientInv(c)'
  BY <1>13, <1>14 DEF ClientInv
<1> QED
  BY <1>1, <1>8, <1>10, <1>15, Together

LEMMA SpyStep ==
    ASSUME BridgeInv, NEW s \in Spies, Spy(s)
    PROVE  BridgeInv'
<1>1. /\ TypeOK /\ spy \in [Spies -> Places] /\ spy[s] \in Places /\ spy[s].on \in Clients
      /\ mapped \subseteq Clients /\ queue \in Seq(Clients) /\ up \in BOOLEAN
      /\ After(s) \in Places /\ \A d : After(s) # [at |-> "report", on |-> d]
  <2>1. TypeOK /\ spy \in [Spies -> Places]
    BY DEF BridgeInv, TypeOK, Places
  <2>2. After(s) \in Places /\ After(s).at # "report"
    BY AfterPlace
  <2> QED
    BY <2>1, <2>2 DEF TypeOK, Places
<1>2. ASSUME NEW p \in Places, spy' = [spy EXCEPT ![s] = p],
             \A d : p # [at |-> "report", on |-> d],
             UNCHANGED <<mapped, entry, frames, queue, pipe, client, cmd, sig, box, sent, blame>>,
             up' \in BOOLEAN
      PROVE  BridgeInv'
  <2>1. spy' \in [Spies -> Places] /\ \A d : SpyAt("report", d)' => SpyAt("report", d)
    BY <1>2, SpyOn
  <2>2. \A d : d \in Range(queue)' => d \in Range(queue)
    BY <1>2 DEF Range
  <2> QED
    BY <1>1, <1>2, <2>1, <2>2, OnlySpies
<1>3. CASE SpyLoop(s)
  <2> DEFINE to == IF mapped = {} THEN [spy[s] EXCEPT !.at = "off"]
                                  ELSE [at |-> "scan", on |-> Min(mapped)]
  <2>1. spy' = [spy EXCEPT ![s] = to]
    BY <1>3 DEF SpyLoop, SpyMoves
  <2>2. UNCHANGED <<mapped, entry, frames, queue, up, pipe, client, cmd, sig, box, sent, blame>>
    BY <1>3 DEF SpyLoop, master, process
  <2>3. to \in Places /\ to.at # "report"
    <3>1. CASE mapped = {}
      BY <1>1, <3>1 DEF Places
    <3>2. CASE mapped # {}
      <4>1. Min(mapped) \in Clients
        BY <1>1, <3>2, ClientsAssumption, Smallest
      <4> QED
        BY <3>2, <4>1 DEF Places
    <3> QED
      BY <3>1, <3>2
  <2>4. \A d : to # [at |-> "report", on |-> d]
    BY <2>3
  <2> HIDE DEF to
  <2> QED
    BY <1>1, <1>2, <2>1, <2>2, <2>3, <2>4
<1>4. CASE SpyScan(s)
  <2> DEFINE to == IF Spied(spy[s].on) THEN [spy[s] EXCEPT !.at = "read"] ELSE After(s)
  <2>1. spy' = [spy EXCEPT ![s] = to]
    BY <1>4 DEF SpyScan, SpyMoves
  <2>2. UNCHANGED <<mapped, entry, frames, queue, up, pipe, client, cmd, sig, box, sent, blame>>
    BY <1>4 DEF SpyScan, master, process
  <2>3. to \in Places /\ \A d : to # [at |-> "report", on |-> d]
    BY <1>1 DEF Places
  <2> HIDE DEF to
  <2> QED
    BY <1>1, <1>2, <2>1, <2>2, <2>3
<1>5. CASE SpyScanErased(s)
  BY <1>1, <1>2, <1>5 DEF SpyScanErased, SpyMoves, process
<1>6. CASE SpyReport(s)
  <2> DEFINE c == spy[s].on
  <2>1. /\ spy[s].at = "report" /\ c \in mapped
        /\ spy' = [spy EXCEPT ![s] = After(s)]
        /\ queue' = IF c \in WithCallback THEN Append(queue, c) ELSE queue
        /\ UNCHANGED <<mapped, entry, frames, up, pipe, client, cmd, sig, box, sent, blame>>
    BY <1>6 DEF SpyReport, SpyMoves, process
  <2>2. spy' \in [Spies -> Places] /\ \A d : SpyAt("report", d)' => SpyAt("report", d)
    BY <1>1, <2>1, SpyOn
  <2>3. SpyAt("report", c) /\ c \in Clients
    BY <1>1, <2>1 DEF SpyAt, Places
  <2> HIDE DEF c
  <2>4. /\ queue' \in Seq(Clients)
        /\ \A d \in Range(queue') : d \in Range(queue) \/ (d = c /\ c \in WithCallback)
    <3>1. CASE c \notin WithCallback
      BY <1>1, <2>1, <3>1
    <3>2. CASE c \in WithCallback
      <4>1. queue' = Append(queue, c)
        BY <2>1, <3>2
      <4>2. /\ queue' \in Seq(Clients) /\ Len(queue') = Len(queue) + 1 /\ Len(queue) \in Nat
            /\ queue'[Len(queue) + 1] = c
            /\ \A i \in 1 .. Len(queue) : queue'[i] = queue[i]
        BY <1>1, <2>3, <4>1, PushSeq
      <4>3. DOMAIN queue' = 1 .. Len(queue) + 1 /\ DOMAIN queue = 1 .. Len(queue)
        BY <1>1, <4>2, DomainSeq
      <4>4. ASSUME NEW i \in DOMAIN queue' PROVE queue'[i] \in Range(queue) \/ queue'[i] = c
        <5>1. CASE i = Len(queue) + 1
          BY <4>2, <5>1
        <5>2. CASE i # Len(queue) + 1
          <6>1. i \in DOMAIN queue /\ queue'[i] = queue[i]
            BY <4>2, <4>3, <5>2
          <6> QED
            BY <6>1 DEF Range
        <5> QED
          BY <5>1, <5>2
      <4> QED
        BY <3>2, <4>2, <4>4 DEF Range
    <3> QED
      BY <3>1, <3>2
  <2>5. \A d \in Clients : d \in Range(queue)' =>
          d \in Range(queue) \/ (d \in WithCallback /\ SpyAt("report", d))
    BY <2>3, <2>4
  <2> QED
    BY <1>1, <2>1, <2>2, <2>4, <2>5, OnlySpies
<1>7. CASE SpyThrows(s)
  <2>1. /\ up' \in BOOLEAN
        /\ UNCHANGED <<mapped, entry, frames, queue, spy, pipe, client, cmd, sig, box, sent, blame>>
    BY <1>7 DEF SpyThrows, process
  <2> QED
    BY <1>1, <2>1, SameQueueAndSpies, OnlySpies
<1>8. CASE SpyRead(s)
  <2> DEFINE c == spy[s].on
  <2>1. spy[s].at = "read" /\ c \in mapped /\ c \in Clients
    BY <1>1, <1>8 DEF SpyRead
  <2>2. CASE box[c] = <<>>
    <3>1. /\ spy' = [spy EXCEPT ![s] = After(s)]
          /\ UNCHANGED <<mapped, entry, frames, queue, up, pipe, client, cmd, sig, box, sent, blame>>
      BY <1>8, <2>2 DEF SpyRead, SpyMoves, process
    <3> QED
      BY <1>1, <1>2, <3>1
  <2>3. CASE box[c] # <<>>
    <3>1. PICK d \in Clients : d = c
      BY <2>1
    <3>2. spy[s].on = d /\ box[d] # <<>>
      BY <2>3, <3>1
    <3> QED
      BY <1>8, <3>2, SpyTakes
  <2> QED
    BY <2>2, <2>3
<1> QED
  BY <1>3, <1>4, <1>5, <1>6, <1>7, <1>8 DEF Spy

-----------------------------------------------------------------------------
(* Steps of a client *)

States == {"unborn", "starting", "idle", "busy", "stopped", "inner", "gone"}
Pipes == Seq(Commands \cup {Exit})
Boxes == Seq(Commands \cup {0})

(* What a step of the client c changes: its own state.                     *)
OwnStep(c) ==
    /\ UNCHANGED <<mapped, entry, frames, queue, spy, up, sent>>
    /\ pipe' \in [Clients -> Pipes] /\ client' \in [Clients -> States]
    /\ cmd' \in [Clients -> Commands \cup {0}] /\ sig' \in [Clients -> BOOLEAN]
    /\ box' \in [Clients -> Boxes] /\ Len(box'[c]) <= 1
    /\ blame' \in [Clients -> SUBSET Causes] /\ blame[c] \subseteq blame'[c]
    /\ \A d \in Clients \ {c} :
         /\ pipe'[d] = pipe[d] /\ client'[d] = client[d] /\ cmd'[d] = cmd[d]
         /\ box'[d] = box[d] /\ blame'[d] = blame[d]

LEMMA ClientTypes ==
    ASSUME BridgeInv, NEW c \in Clients
    PROVE  /\ ClientInv(c) /\ Shape(c) /\ (Good(c) => Flight(c) /\ Known(c))
           /\ pipe \in [Clients -> Pipes] /\ client \in [Clients -> States]
           /\ cmd \in [Clients -> Commands \cup {0}] /\ sig \in [Clients -> BOOLEAN]
           /\ box \in [Clients -> Boxes] /\ \A d \in Clients : Len(box[d]) <= 1
           /\ blame \in [Clients -> SUBSET Causes]
           /\ sent \in [Clients -> Commands \cup {0}]
BY DEF BridgeInv, TypeOK, ClientInv, Pipes, States, Boxes

LEMMA OwnStepInv ==
    ASSUME BridgeInv, NEW c \in Clients, OwnStep(c), ClientInv(c)'
    PROVE  BridgeInv'
<1>1. /\ UNCHANGED <<mapped, entry, frames, queue, spy, up, sent>>
      /\ \A d \in Clients \ {c} :
           /\ pipe'[d] = pipe[d] /\ client'[d] = client[d] /\ cmd'[d] = cmd[d]
           /\ box'[d] = box[d] /\ blame'[d] = blame[d]
  BY DEF OwnStep
<1>2. \A d \in Clients : Len(box'[d]) <= 1
  <2>1. SUFFICES ASSUME NEW d \in Clients PROVE Len(box'[d]) <= 1
    OBVIOUS
  <2>2. CASE d = c
    BY <2>2 DEF OwnStep
  <2>3. CASE d # c
    BY <1>1, <2>3, ClientTypes
  <2> QED
    BY <2>2, <2>3
<1>3. TypeOK' /\ FramesOK'
  BY <1>1, <1>2 DEF BridgeInv, TypeOK, FramesOK, Settled, OwnStep, Pipes, States, Boxes
<1>4. ASSUME NEW d \in Clients \ {c} PROVE Aside(d)
  <2>1. Kept(d)
    BY <1>1, SameQueueAndSpies DEF Kept, Local
  <2> QED
    BY <1>1, <2>1, AsideAlone
<1> QED
  BY <1>3, <1>4, Together

LEMMA SameMaster ==
    ASSUME NEW c \in Clients, OwnStep(c)
    PROVE  /\ Forking(c)' <=> Forking(c)
           /\ Sending(c)' <=> Sending(c)
           /\ Doing("send", c)' <=> Doing("send", c)
           /\ Doing("wait", c)' <=> Doing("wait", c)
           /\ Doing("exit", c)' <=> Doing("exit", c)
           /\ CallbackPending(c)' <=> CallbackPending(c)
           /\ mapped' = mapped /\ entry' = entry /\ sent' = sent
           /\ Good(c)' => Good(c)
<1>1. UNCHANGED <<mapped, entry, frames, queue, spy, up, sent>> /\ blame[c] \subseteq blame'[c]
  BY DEF OwnStep
<1>2. \A x, d : Doing(x, d)' <=> Doing(x, d)
  BY <1>1 DEF Doing
<1>3. /\ c \in Range(queue)' <=> c \in Range(queue)
      /\ SpyAt("report", c)' <=> SpyAt("report", c)
  BY <1>1 DEF Range, SpyAt
<1>4. CallbackPending(c)' <=> CallbackPending(c)
  BY <1>2, <1>3 DEF CallbackPending
<1>5. Good(c)' => Good(c)
  BY <1>1 DEF Good, Blameless
<1> QED
  BY <1>1, <1>2, <1>4, <1>5 DEF Forking, Sending

LEMMA OverFacts ==
    ASSUME BridgeInv, NEW c \in Clients, NEW then \in States, Over(c, then)
    PROVE  /\ client' \in [Clients -> States] /\ client'[c] = then
           /\ cmd' \in [Clients -> Commands \cup {0}] /\ cmd'[c] = 0
           /\ sig' \in [Clients -> BOOLEAN]
           /\ \A d \in Clients \ {c} : client'[d] = client[d] /\ cmd'[d] = cmd[d]
BY ClientTypes DEF Over

(* One master frame at most blocks. *)
LEMMA NotBoth ==
    ASSUME BridgeInv, NEW c \in Clients, Forking(c)
    PROVE  ~Sending(c)
<1>1. frames \in Seq(Frames) /\ Settled(frames)
  BY DEF BridgeInv, TypeOK
<1>2. \A x, y \in Blocking : Doing(x, c) /\ Doing(y, c) => x = y
  BY <1>1, FreeFrames, DoingHas
<1> QED
  BY <1>2 DEF Forking, Sending, Blocking

LEMMA ClientStartsStep ==
    ASSUME BridgeInv, NEW c \in Clients, ClientStarts(c)
    PROVE  BridgeInv'
<1>1. /\ client[c] = "starting" /\ client' = [client EXCEPT ![c] = "idle"]
      /\ box' = [box EXCEPT ![c] = <<0>>]
      /\ UNCHANGED <<mapped, entry, frames, queue, up, sent, blame, spy, pipe, cmd, sig>>
  BY DEF ClientStarts, master
<1>2. <<0>> \in Boxes /\ Len(<<0>>) = 1
  BY DEF Boxes
<1>3. client'[c] = "idle" /\ box'[c] = <<0>> /\ pipe'[c] = pipe[c] /\ cmd'[c] = cmd[c]
  BY <1>1, ClientTypes
<1>4. OwnStep(c)
  BY <1>1, <1>2, ClientTypes DEF OwnStep, States
<1>5. Forking(c) /\ ~Sending(c) /\ c \in mapped /\ sent[c] = 0 /\ pipe[c] = <<>>
  BY <1>1, ClientTypes, NotBoth DEF Shape
<1>6. Shape(c)'
  BY <1>3, <1>4, <1>5, SameMaster, EmptyPipe DEF Shape
<1>7. Flight(c)'
  BY <1>3, <1>4, <1>5, SameMaster, EmptyPipe DEF Flight
<1>8. Known(c)'
  BY <1>3, <1>4, <1>5, SameMaster DEF Known, Outstanding, Sending
<1>9. ClientInv(c)'
  BY <1>6, <1>7, <1>8 DEF ClientInv
<1> QED
  BY <1>4, <1>9, OwnStepInv

LEMMA ClientReadsStep ==
    ASSUME BridgeInv, NEW c \in Clients, ClientReads(c)
    PROVE  BridgeInv'
<1>1. /\ client[c] \in {"idle", "inner"} /\ pipe[c] # <<>> /\ Head(pipe[c]) # Exit
      /\ pipe' = [pipe EXCEPT ![c] = Tail(@)]
      /\ UNCHANGED <<mapped, entry, frames, queue, up, sent, blame, spy, sig, box>>
  BY DEF ClientReads, master
<1> DEFINE h == Head(pipe[c])
           rest == Tail(pipe[c])
<1>2. pipe[c] \in Seq(Commands \cup {Exit})
  BY ClientTypes DEF Pipes
<1>3. /\ rest \in Seq(Commands \cup {Exit}) /\ Range(rest) \subseteq Range(pipe[c])
      /\ h = pipe[c][1] /\ h \in Commands /\ 1 \in DOMAIN pipe[c]
      /\ \A i \in DOMAIN rest : i + 1 \in DOMAIN pipe[c] /\ rest[i] = pipe[c][i + 1]
  BY <1>1, <1>2, TailOf, TailRange
<1>4. DOMAIN rest \subseteq Nat \ {0} /\ (rest # <<>> => 1 \in DOMAIN rest)
  <2>1. DOMAIN rest = 1 .. Len(rest) /\ Len(rest) \in Nat
    BY <1>3, DomainSeq
  <2> QED
    BY <1>3, <2>1, EmptySeq
<1>5. \/ client' = [client EXCEPT ![c] = "busy"] /\ cmd' = [cmd EXCEPT ![c] = h]
      \/ client[c] = "inner" /\ client' = client /\ cmd' = cmd
  BY <1>1 DEF ClientReads
<1>6. rest \in Pipes /\ pipe' = [pipe EXCEPT ![c] = rest]
  BY <1>1, <1>3 DEF Pipes
<1> HIDE DEF h, rest
<1>7. OwnStep(c)
  <2>1. pipe' \in [Clients -> Pipes] /\ \A d \in Clients \ {c} : pipe'[d] = pipe[d]
    BY <1>6, ClientTypes
  <2>2. /\ client' \in [Clients -> States] /\ cmd' \in [Clients -> Commands \cup {0}]
        /\ \A d \in Clients \ {c} : client'[d] = client[d] /\ cmd'[d] = cmd[d]
    BY <1>3, <1>5, ClientTypes DEF States
  <2> QED
    BY <1>1, <2>1, <2>2, ClientTypes DEF OwnStep
<1>8. /\ pipe'[c] = rest /\ box'[c] = box[c]
      /\ \/ client'[c] = "busy" /\ cmd'[c] = h
         \/ client'[c] = "inner" /\ client[c] = "inner" /\ cmd'[c] = cmd[c]
  BY <1>1, <1>5, <1>6, ClientTypes
<1>9. h # 0 /\ h # Exit
  BY <1>3, BoundsAssumption DEF Commands, Exit
<1>10. ~Forking(c)
  BY <1>1, ClientTypes DEF Shape
<1>11. Shape(c)'
  <2>1. Exit \notin Range(pipe[c]) => Exit \notin Range(pipe[c])'
    BY <1>3, <1>8
  <2> QED
    BY <1>7, <1>8, <1>9, <1>10, <2>1, SameMaster, ClientTypes DEF Shape
<1>12. ASSUME Good(c)' PROVE Flight(c)' /\ Known(c)'
  <2>1. Flight(c) /\ Known(c) /\ Good(c)
    BY <1>7, <1>12, SameMaster, ClientTypes
  <2>2. h = sent[c] /\ box[c] = <<>>
    BY <1>1, <1>3, <1>9, <2>1 DEF Flight
  <2>3. \A j \in DOMAIN rest : rest[j] = Exit
    <3>1. SUFFICES ASSUME NEW j \in DOMAIN rest PROVE rest[j] = Exit
      OBVIOUS
    <3>2. j + 1 \in DOMAIN pipe[c] /\ rest[j] = pipe[c][j + 1] /\ j + 1 # 1
      BY <1>3, <1>4
    <3> QED
      BY <2>1, <3>2 DEF Flight
  <2>4. Flight(c)'
    BY <1>4, <1>7, <1>8, <2>2, <2>3, SameMaster DEF Flight
  <2>5. Known(c)'
    BY <1>1, <1>7, <1>8, <2>1, <2>2, SameMaster DEF Known, Outstanding
  <2> QED
    BY <2>4, <2>5
<1>13. ClientInv(c)'
  BY <1>11, <1>12 DEF ClientInv
<1> QED
  BY <1>7, <1>13, OwnStepInv

(* The client goes, and its pipe with it. *)
LEMMA GoneInv ==
    ASSUME BridgeInv, NEW c \in Clients, Over(c, "gone"), client[c] # "unborn",
           pipe' = [pipe EXCEPT ![c] = <<>>],
           UNCHANGED <<mapped, entry, frames, queue, up, sent, blame, spy, box>>
    PROVE  BridgeInv'
<1>1. /\ client' \in [Clients -> States] /\ client'[c] = "gone"
      /\ cmd' \in [Clients -> Commands \cup {0}] /\ sig' \in [Clients -> BOOLEAN]
      /\ \A d \in Clients \ {c} : client'[d] = client[d] /\ cmd'[d] = cmd[d]
  BY OverFacts DEF States
<1>2. /\ pipe' \in [Clients -> Pipes] /\ pipe'[c] = <<>>
      /\ \A d \in Clients \ {c} : pipe'[d] = pipe[d]
  BY ClientTypes DEF Pipes
<1>3. OwnStep(c) /\ box'[c] = box[c]
  BY <1>1, <1>2, ClientTypes DEF OwnStep
<1>4. Shape(c)'
  BY <1>1, <1>2, <1>3, SameMaster, ClientTypes, EmptyPipe DEF Shape
<1>5. ASSUME Good(c)' PROVE Flight(c)' /\ Known(c)'
  <2>1. Flight(c) /\ Known(c)
    BY <1>3, <1>5, SameMaster, ClientTypes
  <2>2. Flight(c)'
    BY <1>1, <1>2, <1>3, <2>1, SameMaster, EmptyPipe DEF Flight
  <2>3. Known(c)'
    BY <1>1, <1>2, <1>3, <2>1, SameMaster DEF Known, Outstanding
  <2> QED
    BY <2>2, <2>3
<1>6. ClientInv(c)'
  BY <1>4, <1>5 DEF ClientInv
<1> QED
  BY <1>3, <1>6, OwnStepInv

LEMMA ClientAnswersStep ==
    ASSUME BridgeInv, NEW c \in Clients, ClientAnswers(c)
    PROVE  BridgeInv'
<1>1. /\ client[c] \in {"busy", "stopped"} /\ box[c] = <<>>
      /\ box' = [box EXCEPT ![c] = <<cmd[c]>>] /\ Over(c, "idle")
      /\ UNCHANGED <<mapped, entry, frames, queue, up, sent, blame, spy, pipe>>
  BY DEF ClientAnswers, master, Answered
<1>2. /\ client' \in [Clients -> States] /\ client'[c] = "idle"
      /\ cmd' \in [Clients -> Commands \cup {0}] /\ sig' \in [Clients -> BOOLEAN]
      /\ \A d \in Clients \ {c} : client'[d] = client[d] /\ cmd'[d] = cmd[d]
  BY <1>1, OverFacts DEF States
<1>3. <<cmd[c]>> \in Boxes /\ Len(<<cmd[c]>>) = 1
  BY ClientTypes DEF Boxes
<1>4. box' \in [Clients -> Boxes] /\ box'[c] = <<cmd[c]>> /\ pipe'[c] = pipe[c]
      /\ \A d \in Clients \ {c} : box'[d] = box[d]
  BY <1>1, <1>3, ClientTypes
<1>5. OwnStep(c)
  BY <1>1, <1>2, <1>3, <1>4, ClientTypes DEF OwnStep
<1>6. ~Forking(c) /\ cmd[c] # 0
  BY <1>1, ClientTypes DEF Shape
<1>7. Shape(c)'
  <2>1. box'[c] # <<0>>
    BY <1>4, <1>6
  <2>2. Range(pipe[c])' = Range(pipe[c])
    BY <1>1
  <2> QED
    BY <1>1, <1>2, <1>4, <1>5, <1>6, <2>1, <2>2, SameMaster, ClientTypes DEF Shape
<1>8. ASSUME Good(c)' PROVE Flight(c)' /\ Known(c)'
  <2>1. Flight(c) /\ Known(c) /\ client[c] = "busy"
    BY <1>1, <1>5, <1>8, SameMaster, ClientTypes DEF Shape
  <2>2. cmd[c] = sent[c]
    BY <2>1 DEF Flight
  <2>3. Flight(c)'
    BY <1>2, <1>4, <1>5, <2>1, <2>2, SameMaster DEF Flight
  <2>4. Known(c)'
    BY <1>2, <1>4, <1>5, <2>1, SameMaster DEF Known, Outstanding, Sending
  <2> QED
    BY <2>3, <2>4
<1>9. ClientInv(c)'
  BY <1>7, <1>8 DEF ClientInv
<1> QED
  BY <1>5, <1>9, OwnStepInv

LEMMA ClientHaltsStep ==
    ASSUME BridgeInv, NEW c \in Clients, ClientHalts(c)
    PROVE  BridgeInv'
<1>1. /\ client[c] \in {"busy", "stopped"} /\ Over(c, "inner")
      /\ UNCHANGED <<mapped, entry, frames, queue, up, sent, blame, spy, pipe, box>>
  BY DEF ClientHalts, master
<1>2. /\ client' \in [Clients -> States] /\ client'[c] = "inner"
      /\ cmd' \in [Clients -> Commands \cup {0}] /\ sig' \in [Clients -> BOOLEAN]
      /\ \A d \in Clients \ {c} : client'[d] = client[d] /\ cmd'[d] = cmd[d]
  BY <1>1, OverFacts DEF States
<1>3. OwnStep(c) /\ pipe'[c] = pipe[c] /\ box'[c] = box[c]
  BY <1>1, <1>2, ClientTypes DEF OwnStep
<1>4. Shape(c)'
  <2>1. Range(pipe[c])' = Range(pipe[c])
    BY <1>1
  <2> QED
    BY <1>1, <1>2, <1>3, <2>1, SameMaster, ClientTypes DEF Shape
<1>5. ASSUME Good(c)' PROVE Flight(c)' /\ Known(c)'
  <2>1. Flight(c) /\ Known(c)
    BY <1>3, <1>5, SameMaster, ClientTypes
  <2>2. Flight(c)'
    BY <1>2, <1>3, <2>1, SameMaster DEF Flight
  <2>3. Known(c)'
    BY <1>2, <1>3, <2>1, SameMaster DEF Known, Outstanding
  <2> QED
    BY <2>2, <2>3
<1>6. ClientInv(c)'
  BY <1>4, <1>5 DEF ClientInv
<1> QED
  BY <1>3, <1>6, OwnStepInv

LEMMA ClientStopsStep ==
    ASSUME BridgeInv, NEW c \in Clients, ClientStops(c)
    PROVE  BridgeInv'
<1>1. /\ client[c] = "busy" /\ box[c] = <<>>
      /\ box' = [box EXCEPT ![c] = <<cmd[c]>>]
      /\ client' = [client EXCEPT ![c] = "stopped"]
      /\ blame' = [blame EXCEPT ![c] = @ \cup {"stop"}]
      /\ UNCHANGED <<mapped, entry, frames, queue, up, sent, spy, pipe, cmd, sig>>
  BY DEF ClientStops, Answered, Blamed
<1>2. <<cmd[c]>> \in Boxes /\ Len(<<cmd[c]>>) = 1
  BY ClientTypes DEF Boxes
<1>3. /\ box' \in [Clients -> Boxes] /\ box'[c] = <<cmd[c]>>
      /\ pipe'[c] = pipe[c] /\ cmd'[c] = cmd[c]
      /\ \A d \in Clients \ {c} : box'[d] = box[d]
  BY <1>1, <1>2, ClientTypes
<1>4. /\ client' \in [Clients -> States] /\ client'[c] = "stopped"
      /\ \A d \in Clients \ {c} : client'[d] = client[d]
  BY <1>1, ClientTypes DEF States
<1>5. /\ blame' \in [Clients -> SUBSET Causes] /\ blame[c] \subseteq blame'[c]
      /\ "stop" \in blame'[c] /\ \A d \in Clients \ {c} : blame'[d] = blame[d]
  BY <1>1, ClientTypes DEF Causes
<1>6. OwnStep(c)
  BY <1>1, <1>2, <1>3, <1>4, <1>5, ClientTypes DEF OwnStep
<1>7. ~Good(c)'
  BY <1>5 DEF Good, Blameless
<1>8. Shape(c)'
  <2>1. ~Forking(c) /\ cmd[c] # 0
    BY <1>1, ClientTypes DEF Shape
  <2>2. box'[c] # <<0>>
    BY <1>3, <2>1
  <2>3. Range(pipe[c])' = Range(pipe[c])
    BY <1>1
  <2> QED
    BY <1>1, <1>3, <1>4, <1>6, <1>7, <2>1, <2>2, <2>3, SameMaster, ClientTypes DEF Shape
<1>9. ClientInv(c)'
  BY <1>7, <1>8 DEF ClientInv
<1> QED
  BY <1>6, <1>9, OwnStepInv

LEMMA ClientStep ==
    ASSUME BridgeInv, NEW c \in Clients, Client(c)
    PROVE  BridgeInv'
<1>1. CASE ClientExits(c)
  BY <1>1, GoneInv DEF ClientExits, master
<1>2. CASE ClientDies(c)
  BY <1>2, GoneInv DEF ClientDies, master
<1>3. CASE ClientStarts(c) \/ ClientReads(c) \/ ClientAnswers(c)
  BY <1>3, ClientStartsStep, ClientReadsStep, ClientAnswersStep
<1>4. CASE ClientHalts(c) \/ ClientStops(c)
  BY <1>4, ClientHaltsStep, ClientStopsStep
<1> QED
  BY <1>1, <1>2, <1>3, <1>4 DEF Client

LEMMA MasterStep ==
    ASSUME BridgeInv, NEW c \in Clients, Master(c)
    PROVE  BridgeInv'
<1>1. CASE GmemFork(c) \/ ForkDone(c) \/ ForkDoneSpy(c)
  BY <1>1, GmemForkStep, ForkDoneStep, ForkDoneSpyStep
<1>2. CASE \E at \in {"send", "call"} : WriteToClient(c, at)
  BY <1>2, WriteToClientStep
<1>3. CASE GmemSend(c, "send") \/ GmemSend(c, "call")
  BY <1>3, GmemSendStep
<1>4. CASE ReadClientWait(c) \/ CallbackDone(c) \/ EventDone(c)
  BY <1>4, ReadClientWaitStep, CallbackDoneStep, EventDoneStep
<1>5. CASE GmemStatus(c) \/ GmemAbort(c)
  BY <1>5, GmemStatusStep, GmemAbortStep
<1>6. CASE GmemExit(c) \/ GmemExitDone(c)
  BY <1>6, GmemExitStep, GmemExitDoneStep
<1> QED
  BY <1>1, <1>2, <1>3, <1>4, <1>5, <1>6 DEF Master

LEMMA StutterStep ==
    ASSUME BridgeInv, UNCHANGED vars
    PROVE  BridgeInv'
<1>1. UNCHANGED <<mapped, entry, frames, queue, spy, up, pipe, client, cmd, sig, box, sent, blame>>
  BY DEF vars
<1>2. spy' \in [Spies -> Places] /\ up' \in BOOLEAN /\ queue' \in Seq(Clients)
  BY <1>1 DEF BridgeInv, TypeOK, Places
<1> QED
  BY <1>1, <1>2, SameQueueAndSpies, OnlySpies

LEMMA InitInv ==
    ASSUME Init
    PROVE  BridgeInv
<1>1. Min(Clients) \in Clients
  BY ClientsAssumption, Smallest
<1>2. Len(<<>>) = 0
  BY EmptySeq
<1>3. TypeOK
  <2>1. spy \in [Spies -> Places]
    BY <1>1 DEF Init, Places
  <2>2. entry \in Entries
    BY DEF Init, Entries, Idle
  <2>3. frames \in Seq(Frames) /\ Len(frames) <= MaxDepth + 1 /\ queue \in Seq(Clients)
    BY <1>2, BoundsAssumption DEF Init
  <2>4. pipe \in [Clients -> Pipes] /\ box \in [Clients -> Boxes]
        /\ \A c \in Clients : Len(box[c]) <= 1
    BY <1>2 DEF Init, Pipes, Boxes
  <2> QED
    BY <2>1, <2>2, <2>3, <2>4 DEF Init, TypeOK, Places, Entries, Pipes, Boxes
<1>4. Settled(frames) /\ \A x, c : ~Doing(x, c)
  <2>1. frames = <<>> /\ frames \in Seq(Frames)
    BY DEF Init
  <2>2. Settled(frames) /\ \A x, c : ~Has(frames, x, c)
    BY <2>1, FreeFrames
  <2> QED
    BY <2>2, DoingHas
<1>5. ASSUME NEW c \in Clients PROVE ClientInv(c)
  <2>1. Shape(c)
    BY <1>4, EmptyPipe DEF Init, Shape, Forking, Sending
  <2>2. Flight(c)
    BY EmptyPipe DEF Init, Flight
  <2>3. Known(c)
    BY <1>4 DEF Init, Known, Sending
  <2> QED
    BY <2>1, <2>2, <2>3 DEF ClientInv
<1> QED
  BY <1>3, <1>4, <1>5 DEF BridgeInv

LEMMA Inductive == Spec => []BridgeInv
<1>1. BridgeInv /\ [Next]_vars => BridgeInv'
  <2> SUFFICES ASSUME BridgeInv, [Next]_vars PROVE BridgeInv'
    OBVIOUS
  <2>1. CASE \E c \in Clients : Master(c)
    BY <2>1, MasterStep
  <2>2. CASE \E c \in Clients : Client(c)
    BY <2>2, ClientStep
  <2>3. CASE EventDispatcher
    BY <2>3, EventDispatcherStep
  <2>4. CASE \E s \in Spies : Spy(s)
    BY <2>4, SpyStep
  <2>5. CASE UNCHANGED vars
    BY <2>5, StutterStep
  <2> QED
    BY <2>1, <2>2, <2>3, <2>4, <2>5 DEF Next
<1> QED
  BY <1>1, InitInv, PTL DEF Spec

-----------------------------------------------------------------------------
(* What is proved of the bridge *)

(* Every variable has its type: a message queue never holds more than the  *)
(* one message it was opened for, and the master's frames end.             *)
THEOREM BridgeTypes == Spec => []TypeOK
<1>1. BridgeInv => TypeOK
  BY DEF BridgeInv
<1> QED
  BY <1>1, Inductive, PTL

(* The answer in a client's message queue is that of its last command,     *)
(* however many clients, spies and nested call-backs there are.            *)
THEOREM AnswersAreOfLastCommand == Spec => []AnswersLastCommand
<1>1. ASSUME BridgeInv PROVE AnswersLastCommand
  <2>1. SUFFICES ASSUME NEW c \in Clients, box[c] # <<>>,
                        Blameless(c, {"early", "stop", "cut"})
                 PROVE  box[c] = <<sent[c]>>
    BY DEF AnswersLastCommand
  <2>2. Flight(c)
    BY <1>1, <2>1 DEF BridgeInv, ClientInv, Good
  <2> QED
    BY <2>1, <2>2 DEF Flight
<1> QED
  BY <1>1, Inductive, PTL

(* The map says of every client with a command to execute or an answer to  *)
(* give that it is busy, so that gmem_send refuses the next command.       *)
THEOREM BusyClientsAreKnown == Spec => []BusyIsKnown
<1>1. ASSUME BridgeInv PROVE BusyIsKnown
  <2>1. SUFFICES ASSUME NEW c \in mapped, up, Outstanding(c), ~Doing("exit", c),
                        Blameless(c, {"early", "stop", "cut"})
                 PROVE  entry[c].status = 1
    BY DEF BusyIsKnown
  <2>2. c \in Clients
    BY <1>1 DEF BridgeInv, TypeOK
  <2>3. Known(c)
    BY <1>1, <2>1, <2>2 DEF BridgeInv, ClientInv, Good
  <2> QED
    BY <2>1, <2>3 DEF Known
<1> QED
  BY <1>1, Inductive, PTL
=============================================================================
