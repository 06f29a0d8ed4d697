--------------------------- MODULE DispatchProofs ---------------------------
(***************************************************************************)
(* Proofs about the dispatch of errors: a statement runs in its own        *)
(* environment, the flag of EXECUTE is what it should be, the variables    *)
(* have their types, and an error ends where ON_ERROR, CATCH and           *)
(* ON_IOERROR say, for stacks of every height and every vocabulary of      *)
(* programs and users.                                                     *)
(***************************************************************************)
EXTENDS Dispatch, TLAPS, SequenceTheorems, FiniteSetTheorems, WellFoundedInduction

(* The activations that have an environment of their own. *)
Own(act) == act.kind \in {"call", "event"}

(* The environment of every activation of fs is one of the n there are,    *)
(* and those that have their own stand above the environments before.  An  *)
(* inner loop is not the first activation.                                 *)
Standing(fs, n) ==
    /\ n \in Nat \ {0}
    /\ Len(fs) >= 1 => fs[1].kind \notin Loops
    /\ \A i \in 1 .. Len(fs) : fs[i].env \in 1 .. n
    /\ \A i \in 1 .. Len(fs) : Own(fs[i]) =>
        fs[i].env >= 2 /\ \A j \in 1 .. i - 1 : fs[j].env < fs[i].env

(* Unless a call-back's environment was left behind, there is one for      *)
(* $MAIN$ and one for each activation that has its own.                    *)
EnvBelow(fs, i) == IF i = 1 THEN 1 ELSE fs[i - 1].env

Matching(fs, n) ==
    /\ n = EnvBelow(fs, Len(fs) + 1)
    /\ \A i \in 1 .. Len(fs) :
        fs[i].env = IF Own(fs[i]) THEN EnvBelow(fs, i) + 1 ELSE EnvBelow(fs, i)
    /\ \A i \in 1 .. Len(fs) : (\A j \in 1 .. i : ~Own(fs[j])) => fs[i].env = 1

(* No EXECUTE is below the activation i. *)
Outside(fs, i) == \A j \in 1 .. i - 1 : fs[j].kind # "execute"

(* The flag f, and what each EXECUTE has saved, tell whether it is inside. *)
Guarding(fs, f) ==
    /\ (f = TRUE) <=> Outside(fs, Len(fs) + 1)
    /\ \A i \in 1 .. Len(fs) : fs[i].kind = "execute" =>
        ((fs[i].saved = TRUE) <=> Outside(fs, i))

Sound(fs, n, f, l) ==
    /\ Standing(fs, n)
    /\ ~l => Matching(fs, n)
    /\ Guarding(fs, f)

FrameTypes ==
    /\ callStack \in Seq(Env)
    /\ acts \in Seq(Act)
    /\ enable \in BOOLEAN
    /\ leaked \in BOOLEAN

DispatchInv == FrameTypes /\ Sound(acts, Len(callStack), enable, leaked)

(* bs are the activations fs, some of them at another place. *)
SameFrames(fs, bs) ==
    /\ bs \in Seq(Act)
    /\ Len(bs) = Len(fs)
    /\ \A i \in 1 .. Len(fs) :
        bs[i].kind = fs[i].kind /\ bs[i].env = fs[i].env /\ bs[i].saved = fs[i].saved

Places == {"body", "line", "end", "return", "abort"}

-----------------------------------------------------------------------------
(* Sequences *)

LEMMA CutSeq ==
    ASSUME NEW S, NEW s \in Seq(S), NEW k \in 0 .. Len(s)
    PROVE  /\ SubSeq(s, 1, k) \in Seq(S)
           /\ Len(SubSeq(s, 1, k)) = k
           /\ \A i \in 1 .. k : SubSeq(s, 1, k)[i] = s[i]
<1>1. CASE k = 0
  BY <1>1, SubSeqEmpty, EmptySeq
<1>2. CASE k # 0
  <2>1. k \in 1 .. Len(s)
    BY <1>2
  <2>2. SubSeq(s, 1, k) \in Seq(S)
    BY <2>1
  <2>3. Len(SubSeq(s, 1, k)) = k
    BY <2>1
  <2>4. \A i \in 1 .. k : SubSeq(s, 1, k)[i] = s[i]
    BY <2>1
  <2> QED
    BY <2>2, <2>3, <2>4
<1> QED
  BY <1>1, <1>2

LEMMA FrontOf ==
    ASSUME NEW S, NEW s \in Seq(S), s # <<>>
    PROVE  /\ Len(s) \in Nat \ {0}
           /\ Last(s) = s[Len(s)] /\ Last(s) \in S
           /\ Front(s) \in Seq(S) /\ Len(Front(s)) = Len(s) - 1
           /\ \A i \in 1 .. Len(s) - 1 : Front(s)[i] = s[i]
<1>1. Len(s) \in Nat \ {0}
  BY EmptySeq
<1>2. Len(s) - 1 \in 0 .. Len(s) /\ s[Len(s)] \in S
  BY <1>1, ElementOfSeq
<1> QED
  BY <1>1, <1>2, CutSeq DEF Front, Last

LEMMA PushSeq ==
    ASSUME NEW S, NEW s \in Seq(S), NEW e \in S
    PROVE  /\ Append(s, e) \in Seq(S)
           /\ Len(Append(s, e)) = Len(s) + 1
           /\ Append(s, e)[Len(s) + 1] = e
           /\ \A i \in 1 .. Len(s) : Append(s, e)[i] = s[i]
OBVIOUS

LEMMA SetSeq ==
    ASSUME NEW S, NEW s \in Seq(S), NEW k \in 1 .. Len(s), NEW e \in S
    PROVE  /\ [s EXCEPT ![k] = e] \in Seq(S)
           /\ Len([s EXCEPT ![k] = e]) = Len(s)
           /\ \A j \in 1 .. Len(s) : [s EXCEPT ![k] = e][j] = IF j = k THEN e ELSE s[j]
<1>1. [s EXCEPT ![k] = e] \in Seq(S)
  OBVIOUS
<1>2. Len([s EXCEPT ![k] = e]) = Len(s)
  OBVIOUS
<1>3. \A j \in 1 .. Len(s) : [s EXCEPT ![k] = e][j] = IF j = k THEN e ELSE s[j]
  OBVIOUS
<1> QED
  BY <1>1, <1>2, <1>3

LEMMA SetActs ==
    ASSUME NEW fs \in Seq(Act), NEW k \in 1 .. Len(fs), NEW act \in Act
    PROVE  /\ [fs EXCEPT ![k] = act] \in Seq(Act)
           /\ Len([fs EXCEPT ![k] = act]) = Len(fs)
           /\ \A j \in 1 .. Len(fs) : [fs EXCEPT ![k] = act][j] = IF j = k THEN act ELSE fs[j]
BY SetSeq

LEMMA SetSame ==
    ASSUME NEW fs \in Seq(Act), NEW k \in 1 .. Len(fs), NEW act \in Act,
           act.kind = fs[k].kind, act.env = fs[k].env, act.saved = fs[k].saved
    PROVE  SameFrames(fs, [fs EXCEPT ![k] = act])
<1>1. /\ [fs EXCEPT ![k] = act] \in Seq(Act)
      /\ Len([fs EXCEPT ![k] = act]) = Len(fs)
      /\ \A j \in 1 .. Len(fs) : [fs EXCEPT ![k] = act][j] = IF j = k THEN act ELSE fs[j]
  BY SetActs
<1> QED
  BY <1>1 DEF SameFrames

LEMMA ActSet ==
    ASSUME NEW act \in Act, NEW at \in Places
    PROVE  /\ [act EXCEPT !.at = at] \in Act
           /\ [act EXCEPT !.at = at].kind = act.kind
           /\ [act EXCEPT !.at = at].env = act.env
           /\ [act EXCEPT !.at = at].saved = act.saved
BY DEF Act, Places

(* Another place for one activation changes nothing else. *)
LEMMA PlaceSet ==
    ASSUME NEW fs \in Seq(Act), NEW k \in Int, NEW at \in Places
    PROVE  SameFrames(fs, [fs EXCEPT ![k].at = at])
<1>1. CASE k \in 1 .. Len(fs)
  <2>1. fs[k] \in Act
    BY <1>1, ElementOfSeq
  <2>2. SameFrames(fs, [fs EXCEPT ![k] = [fs[k] EXCEPT !.at = at]])
    BY <1>1, <2>1, ActSet, SetSame
  <2> QED
    BY <2>2
<1>2. CASE k \notin 1 .. Len(fs)
  <2>1. [fs EXCEPT ![k].at = at] = fs
    BY <1>2, LenProperties
  <2> QED
    BY <2>1 DEF SameFrames
<1> QED
  BY <1>1, <1>2

LEMMA SteppedSame ==
    ASSUME NEW fs \in Seq(Act)
    PROVE  SameFrames(fs, Stepped(fs))
<1>1. Len(fs) \in Int /\ "end" \in Places
  BY LenProperties DEF Places
<1>2. SameFrames(fs, [fs EXCEPT ![Len(fs)].at = "end"])
  BY <1>1, PlaceSet
<1>3. SameFrames(fs, fs)
  BY DEF SameFrames
<1> QED
  BY <1>2, <1>3 DEF Stepped

-----------------------------------------------------------------------------
(* What pushing, leaving and moving activations does to the invariant *)

LEMMA SameSound ==
    ASSUME NEW fs \in Seq(Act), NEW bs, SameFrames(fs, bs),
           NEW n, NEW f, NEW l, Sound(fs, n, f, l)
    PROVE  bs \in Seq(Act) /\ Sound(bs, n, f, l)
<1>1. /\ bs \in Seq(Act) /\ Len(bs) = Len(fs) /\ Len(fs) \in Nat
      /\ \A i \in 1 .. Len(fs) :
            bs[i].kind = fs[i].kind /\ bs[i].env = fs[i].env /\ bs[i].saved = fs[i].saved
  BY LenProperties DEF SameFrames
<1>2. \A i \in 1 .. Len(fs) + 1 : EnvBelow(bs, i) = EnvBelow(fs, i)
  BY <1>1 DEF EnvBelow
<1>3. \A i \in 1 .. Len(fs) + 1 : Outside(bs, i) <=> Outside(fs, i)
  BY <1>1 DEF Outside
<1>4. \A i \in 1 .. Len(fs) : Own(bs[i]) <=> Own(fs[i])
  BY <1>1 DEF Own
<1>5. Standing(bs, n)
  BY <1>1, <1>4 DEF Sound, Standing
<1>6. Matching(fs, n) => Matching(bs, n)
  BY <1>1, <1>2, <1>4 DEF Matching
<1>7. Guarding(bs, f)
  BY <1>1, <1>3 DEF Sound, Guarding
<1> QED
  BY <1>1, <1>5, <1>6, <1>7 DEF Sound

(* A line, an EXECUTE or a loop, in the environment on top. *)
LEMMA PushSound ==
    ASSUME NEW fs \in Seq(Act), NEW n, NEW f \in BOOLEAN, NEW l, Sound(fs, n, f, l),
           NEW act \in Act, ~Own(act), act.env = n, act.saved = f,
           act.kind \in Loops => fs # <<>>,
           NEW g \in BOOLEAN, g <=> (f /\ act.kind # "execute")
    PROVE  Append(fs, act) \in Seq(Act) /\ Sound(Append(fs, act), n, g, l)
<1> DEFINE bs == Append(fs, act)
<1>1. /\ bs \in Seq(Act) /\ Len(bs) = Len(fs) + 1 /\ bs[Len(fs) + 1] = act
      /\ \A i \in 1 .. Len(fs) : bs[i] = fs[i]
  BY PushSeq
<1>2. Len(fs) \in Nat /\ n \in Nat \ {0}
  BY LenProperties DEF Sound, Standing
<1> HIDE DEF bs
<1>3. \A i \in 1 .. Len(fs) + 1 : EnvBelow(bs, i) = EnvBelow(fs, i)
  BY <1>1, <1>2 DEF EnvBelow
<1>4. \A i \in 1 .. Len(fs) + 1 : Outside(bs, i) <=> Outside(fs, i)
  <2>1. \A i \in 1 .. Len(fs) + 1 : \A j \in 1 .. i - 1 : bs[j] = fs[j]
    BY <1>1, <1>2
  <2> QED
    BY <2>1 DEF Outside
<1>5. Standing(bs, n)
  <2>1. n \in 1 .. n
    BY <1>2
  <2>2. \A i \in 1 .. Len(bs) : bs[i].env \in 1 .. n
    BY <2>1, <1>1, <1>2 DEF Sound, Standing
  <2>3. \A i \in 1 .. Len(bs) : Own(bs[i]) =>
            bs[i].env >= 2 /\ \A j \in 1 .. i - 1 : bs[j].env < bs[i].env
    BY <1>1, <1>2 DEF Sound, Standing
  <2>4. bs[1].kind \notin Loops
    BY <1>1, <1>2 DEF Sound, Standing
  <2> QED
    BY <2>2, <2>3, <2>4, <1>2 DEF Standing
<1>6. ASSUME Matching(fs, n) PROVE Matching(bs, n)
  <2>1. EnvBelow(bs, Len(bs) + 1) = n
    BY <1>1, <1>2 DEF EnvBelow
  <2>2. \A i \in 1 .. Len(bs) :
            bs[i].env = IF Own(bs[i]) THEN EnvBelow(bs, i) + 1 ELSE EnvBelow(bs, i)
    BY <1>1, <1>2, <1>3, <1>6 DEF Matching
  <2>3. (\A j \in 1 .. Len(fs) : ~Own(fs[j])) => n = 1
    <3>1. CASE Len(fs) = 0
      BY <3>1, <1>6 DEF Matching, EnvBelow
    <3>2. CASE Len(fs) # 0
      <4>1. n = fs[Len(fs)].env /\ Len(fs) \in 1 .. Len(fs)
        BY <3>2, <1>2, <1>6 DEF Matching, EnvBelow
      <4> QED
        BY <4>1, <3>2, <1>2, <1>6 DEF Matching
    <3> QED
      BY <3>1, <3>2
  <2>4. \A i \in 1 .. Len(bs) : (\A j \in 1 .. i : ~Own(bs[j])) => bs[i].env = 1
    BY <1>1, <1>2, <1>6, <2>3 DEF Matching
  <2> QED
    BY <2>1, <2>2, <2>4 DEF Matching
<1>7. Guarding(bs, g)
  <2>1. Outside(bs, Len(bs) + 1) <=> Outside(fs, Len(fs) + 1) /\ act.kind # "execute"
    BY <1>1, <1>2 DEF Outside
  <2>2. \A i \in 1 .. Len(bs) : bs[i].kind = "execute" =>
            ((bs[i].saved = TRUE) <=> Outside(bs, i))
    BY <1>1, <1>2, <1>4 DEF Sound, Guarding
  <2> QED
    BY <2>1, <2>2 DEF Sound, Guarding
<1>8. Sound(bs, n, g, l)
  BY <1>5, <1>6, <1>7 DEF Sound
<1> QED
  BY <1>1, <1>8 DEF bs

(* A routine or a call-back, in an environment of its own. *)
LEMMA EnterSound ==
    ASSUME NEW fs \in Seq(Act), NEW n, NEW f \in BOOLEAN, NEW l, Sound(fs, n, f, l),
           NEW act \in Act, Own(act), act.env = n + 1
    PROVE  Append(fs, act) \in Seq(Act) /\ Sound(Append(fs, act), n + 1, f, l)
<1> DEFINE bs == Append(fs, act)
<1>1. /\ bs \in Seq(Act) /\ Len(bs) = Len(fs) + 1 /\ bs[Len(fs) + 1] = act
      /\ \A i \in 1 .. Len(fs) : bs[i] = fs[i]
  BY PushSeq
<1>2. Len(fs) \in Nat /\ n \in Nat \ {0} /\ act.kind # "execute"
  BY LenProperties DEF Sound, Standing, Own
<1> HIDE DEF bs
<1>3. \A i \in 1 .. Len(fs) + 1 : EnvBelow(bs, i) = EnvBelow(fs, i)
  BY <1>1, <1>2 DEF EnvBelow
<1>4. \A i \in 1 .. Len(fs) + 1 : Outside(bs, i) <=> Outside(fs, i)
  <2>1. \A i \in 1 .. Len(fs) + 1 : \A j \in 1 .. i - 1 : bs[j] = fs[j]
    BY <1>1, <1>2
  <2> QED
    BY <2>1 DEF Outside
<1>5. Standing(bs, n + 1)
  <2>1. \A i \in 1 .. Len(bs) : bs[i].env \in 1 .. n + 1
    BY <1>1, <1>2 DEF Sound, Standing
  <2>2. \A i \in 1 .. Len(bs) : Own(bs[i]) =>
            bs[i].env >= 2 /\ \A j \in 1 .. i - 1 : bs[j].env < bs[i].env
    <3>1. /\ \A i \in 1 .. Len(fs) : fs[i].env \in 1 .. n
          /\ \A i \in 1 .. Len(fs) : Own(fs[i]) =>
                fs[i].env >= 2 /\ \A j \in 1 .. i - 1 : fs[j].env < fs[i].env
      BY DEF Sound, Standing
    <3>2. \A j \in 1 .. Len(fs) : bs[j].env < n + 1
      BY <3>1, <1>1, <1>2
    <3>3. \A i \in 1 .. Len(fs) : \A j \in 1 .. i - 1 : bs[i] = fs[i] /\ bs[j] = fs[j]
      BY <1>1, <1>2
    <3>4. \A i \in 1 .. Len(bs) : i \in 1 .. Len(fs) \/ i = Len(fs) + 1
      BY <1>1, <1>2
    <3> QED
      BY <3>1, <3>2, <3>3, <3>4, <1>1, <1>2
  <2>3. bs[1].kind \notin Loops
    BY <1>1, <1>2 DEF Sound, Standing, Own, Loops
  <2> QED
    BY <2>1, <2>2, <2>3, <1>2 DEF Standing
<1>6. ASSUME Matching(fs, n) PROVE Matching(bs, n + 1)
  <2>1. EnvBelow(bs, Len(bs) + 1) = n + 1
    BY <1>1, <1>2 DEF EnvBelow
  <2>2. \A i \in 1 .. Len(bs) :
            bs[i].env = IF Own(bs[i]) THEN EnvBelow(bs, i) + 1 ELSE EnvBelow(bs, i)
    BY <1>1, <1>2, <1>3, <1>6 DEF Matching
  <2>3. \A i \in 1 .. Len(bs) : (\A j \in 1 .. i : ~Own(bs[j])) => bs[i].env = 1
    BY <1>1, <1>2, <1>6 DEF Matching
  <2> QED
    BY <2>1, <2>2, <2>3 DEF Matching
<1>7. Guarding(bs, f)
  <2>1. Outside(bs, Len(bs) + 1) <=> Outside(fs, Len(fs) + 1)
    BY <1>1, <1>2 DEF Outside
  <2>2. \A i \in 1 .. Len(bs) : bs[i].kind = "execute" =>
            ((bs[i].saved = TRUE) <=> Outside(bs, i))
    BY <1>1, <1>2, <1>4 DEF Sound, Guarding
  <2> QED
    BY <2>1, <2>2 DEF Sound, Guarding
<1>8. Sound(bs, n + 1, f, l)
  BY <1>5, <1>6, <1>7 DEF Sound
<1> QED
  BY <1>1, <1>8 DEF bs

(* All but the activation on top. *)
LEMMA FrontSame ==
    ASSUME NEW fs \in Seq(Act), fs # <<>>, NEW bs, bs = Front(fs)
    PROVE  /\ bs \in Seq(Act) /\ Len(bs) = Len(fs) - 1 /\ Len(bs) \in Nat
           /\ Last(fs) = fs[Len(fs)] /\ Len(fs) \in 1 .. Len(fs)
           /\ \A i \in 1 .. Len(bs) : bs[i] = fs[i] /\ i \in 1 .. Len(fs)
           /\ \A i \in 1 .. Len(fs) : EnvBelow(bs, i) = EnvBelow(fs, i)
           /\ \A i \in 1 .. Len(fs) : Outside(bs, i) <=> Outside(fs, i)
           /\ \A i \in 1 .. Len(bs) :
                (\A j \in 1 .. i : ~Own(bs[j])) <=> (\A j \in 1 .. i : ~Own(fs[j]))
           /\ \A i \in 1 .. Len(bs) : \A j \in 1 .. i - 1 : bs[j] = fs[j]
<1>1. /\ bs \in Seq(Act) /\ Len(bs) = Len(fs) - 1 /\ Len(fs) \in Nat \ {0}
      /\ \A i \in 1 .. Len(bs) : bs[i] = fs[i]
      /\ Last(fs) = fs[Len(fs)]
  BY FrontOf
<1>2. \A i \in 1 .. Len(fs) : EnvBelow(bs, i) = EnvBelow(fs, i)
  BY <1>1 DEF EnvBelow
<1>3. \A i \in 1 .. Len(fs) : \A j \in 1 .. i - 1 : bs[j] = fs[j]
  BY <1>1
<1>4. \A i \in 1 .. Len(fs) : Outside(bs, i) <=> Outside(fs, i)
  BY <1>3 DEF Outside
<1>5. \A i \in 1 .. Len(bs) : \A j \in 1 .. i : bs[j] = fs[j]
  BY <1>1
<1>6. \A i \in 1 .. Len(bs) :
            (\A j \in 1 .. i : ~Own(bs[j])) <=> (\A j \in 1 .. i : ~Own(fs[j]))
  BY <1>5 DEF Own
<1>7. \A i \in 1 .. Len(bs) : i \in 1 .. Len(fs)
  BY <1>1
<1>8. Len(fs) \in 1 .. Len(fs) /\ Len(bs) \in Nat
  BY <1>1
<1> QED
  BY <1>1, <1>2, <1>3, <1>4, <1>6, <1>7, <1>8

LEMMA FrontMatching ==
    ASSUME NEW fs \in Seq(Act), fs # <<>>, NEW n, Matching(fs, n)
    PROVE  /\ n = fs[Len(fs)].env
           /\ Matching(Front(fs), EnvBelow(fs, Len(fs)))
<1> DEFINE bs == Front(fs)
<1>1. /\ bs \in Seq(Act) /\ Len(bs) = Len(fs) - 1 /\ Len(bs) \in Nat
      /\ Len(fs) \in 1 .. Len(fs)
      /\ \A i \in 1 .. Len(bs) : bs[i] = fs[i] /\ i \in 1 .. Len(fs)
      /\ \A i \in 1 .. Len(fs) : EnvBelow(bs, i) = EnvBelow(fs, i)
      /\ \A i \in 1 .. Len(bs) :
            (\A j \in 1 .. i : ~Own(bs[j])) <=> (\A j \in 1 .. i : ~Own(fs[j]))
  BY FrontSame
<1> HIDE DEF bs
<1>2. n = fs[Len(fs)].env
  BY <1>1 DEF Matching, EnvBelow
<1>3. EnvBelow(fs, Len(fs)) = EnvBelow(bs, Len(bs) + 1)
  BY <1>1
<1>4. \A i \in 1 .. Len(bs) :
            bs[i].env = IF Own(bs[i]) THEN EnvBelow(bs, i) + 1 ELSE EnvBelow(bs, i)
  BY <1>1 DEF Matching
<1>5. \A i \in 1 .. Len(bs) : (\A j \in 1 .. i : ~Own(bs[j])) => bs[i].env = 1
  <2> SUFFICES ASSUME NEW i \in 1 .. Len(bs), \A j \in 1 .. i : ~Own(bs[j])
               PROVE  bs[i].env = 1
    OBVIOUS
  <2>1. \A j \in 1 .. i : ~Own(fs[j])
    BY <1>1
  <2> QED
    BY <2>1, <1>1 DEF Matching
<1>6. Matching(bs, EnvBelow(fs, Len(fs)))
  BY <1>3, <1>4, <1>5 DEF Matching
<1> QED
  BY <1>2, <1>6 DEF bs

LEMMA FrontStanding ==
    ASSUME NEW fs \in Seq(Act), fs # <<>>, NEW n, Standing(fs, n),
           NEW m \in Nat \ {0}, \A i \in 1 .. Len(fs) - 1 : fs[i].env <= m
    PROVE  Standing(Front(fs), m)
<1> DEFINE bs == Front(fs)
<1>1. /\ Len(bs) = Len(fs) - 1
      /\ \A i \in 1 .. Len(bs) : bs[i] = fs[i] /\ i \in 1 .. Len(fs)
      /\ \A i \in 1 .. Len(bs) : \A j \in 1 .. i - 1 : bs[j] = fs[j]
  BY FrontSame
<1> HIDE DEF bs
<1>2. \A i \in 1 .. Len(bs) : fs[i].env \in 1 .. n /\ fs[i].env <= m
  BY <1>1 DEF Standing
<1>3. \A i \in 1 .. Len(bs) : bs[i].env \in 1 .. m
  BY <1>1, <1>2 DEF Standing
<1>4. \A i \in 1 .. Len(bs) : Own(bs[i]) =>
            bs[i].env >= 2 /\ \A j \in 1 .. i - 1 : bs[j].env < bs[i].env
  <2> SUFFICES ASSUME NEW i \in 1 .. Len(bs), Own(bs[i])
               PROVE  bs[i].env >= 2 /\ \A j \in 1 .. i - 1 : bs[j].env < bs[i].env
    OBVIOUS
  <2>1. i \in 1 .. Len(fs) /\ Own(fs[i]) /\ bs[i] = fs[i]
    BY <1>1
  <2>2. fs[i].env >= 2 /\ \A j \in 1 .. i - 1 : fs[j].env < fs[i].env
    BY <2>1 DEF Standing
  <2> QED
    BY <2>1, <2>2, <1>1
<1>5. Len(bs) >= 1 => bs[1].kind \notin Loops
  BY <1>1 DEF Standing
<1>6. Standing(bs, m)
  BY <1>3, <1>4, <1>5 DEF Standing
<1> QED
  BY <1>6 DEF bs

LEMMA FrontGuarding ==
    ASSUME NEW fs \in Seq(Act), fs # <<>>, NEW f, Guarding(fs, f),
           NEW g, Last(fs).kind = "execute" => g = Last(fs).saved,
           Last(fs).kind # "execute" => g = f
    PROVE  Guarding(Front(fs), g)
<1> DEFINE bs == Front(fs)
<1>1. /\ bs \in Seq(Act) /\ Len(bs) = Len(fs) - 1 /\ Len(bs) \in Nat
      /\ Last(fs) = fs[Len(fs)] /\ Len(fs) \in 1 .. Len(fs)
      /\ \A i \in 1 .. Len(bs) : bs[i] = fs[i] /\ i \in 1 .. Len(fs)
      /\ \A i \in 1 .. Len(fs) : Outside(bs, i) <=> Outside(fs, i)
  BY FrontSame
<1> HIDE DEF bs
<1>2. \A i \in 1 .. Len(bs) : bs[i].kind = "execute" =>
            ((bs[i].saved = TRUE) <=> Outside(bs, i))
  BY <1>1 DEF Guarding
<1>3. (g = TRUE) <=> Outside(fs, Len(fs))
  <2>1. CASE Last(fs).kind = "execute"
    BY <2>1, <1>1 DEF Guarding
  <2>2. CASE Last(fs).kind # "execute"
    <3>1. Outside(fs, Len(fs) + 1) <=> Outside(fs, Len(fs))
      BY <2>2, <1>1 DEF Outside
    <3> QED
      BY <2>2, <3>1 DEF Guarding
  <2> QED
    BY <2>1, <2>2
<1>4. Outside(fs, Len(fs)) <=> Outside(bs, Len(bs) + 1)
  BY <1>1
<1>5. Guarding(bs, g)
  BY <1>2, <1>3, <1>4 DEF Guarding
<1> QED
  BY <1>5 DEF bs

(* The activation on top is left, and its environment stays. *)
LEMMA PopSound ==
    ASSUME NEW fs \in Seq(Act), fs # <<>>,
           NEW n, NEW f, NEW l, Sound(fs, n, f, l),
           ~Own(Last(fs)),
           NEW g, g = IF Last(fs).kind = "execute" THEN Last(fs).saved ELSE f
    PROVE  Front(fs) \in Seq(Act) /\ Sound(Front(fs), n, g, l)
<1>1. Front(fs) \in Seq(Act) /\ Last(fs) = fs[Len(fs)] /\ Len(fs) \in 1 .. Len(fs)
  BY FrontSame
<1>2. n \in Nat \ {0} /\ \A i \in 1 .. Len(fs) - 1 : fs[i].env <= n
  BY <1>1 DEF Sound, Standing
<1>3. Standing(Front(fs), n)
  BY <1>2, FrontStanding DEF Sound
<1>4. ASSUME Matching(fs, n) PROVE Matching(Front(fs), n)
  <2>1. n = fs[Len(fs)].env /\ Matching(Front(fs), EnvBelow(fs, Len(fs)))
    BY <1>4, FrontMatching
  <2>2. fs[Len(fs)].env = EnvBelow(fs, Len(fs))
    BY <1>1, <1>4 DEF Matching
  <2> QED
    BY <2>1, <2>2
<1>5. Guarding(Front(fs), g)
  BY FrontGuarding DEF Sound
<1> QED
  BY <1>1, <1>3, <1>4, <1>5 DEF Sound

LEMMA BelowInt ==
    ASSUME NEW fs \in Seq(Act), fs # <<>>, NEW n, Standing(fs, n)
    PROVE  EnvBelow(fs, Len(fs)) \in Int
<1>1. Len(fs) \in Nat \ {0}
  BY FrontOf
<1>2. CASE Len(fs) = 1
  BY <1>2 DEF EnvBelow
<1>3. CASE Len(fs) # 1
  <2>1. \A k \in Nat \ {0} : k # 1 => k - 1 \in 1 .. k
    OBVIOUS
  <2>2. Len(fs) - 1 \in 1 .. Len(fs)
    BY <2>1, <1>1, <1>3
  <2> QED
    BY <2>2, <1>3 DEF EnvBelow, Standing
<1> QED
  BY <1>2, <1>3

(* An activation with an environment of its own is left: m environments    *)
(* stay, one less unless this is a leak.                                   *)
LEMMA LeaveSound ==
    ASSUME NEW fs \in Seq(Act), fs # <<>>,
           NEW n, NEW f, NEW l, Sound(fs, n, f, l),
           Own(Last(fs)),
           NEW m \in Nat, Last(fs).env - 1 <= m, m <= n,
           NEW k, ~k => ~l /\ m = n - 1
    PROVE  Front(fs) \in Seq(Act) /\ Sound(Front(fs), m, f, k)
<1>1. Front(fs) \in Seq(Act) /\ Last(fs) = fs[Len(fs)] /\ Len(fs) \in 1 .. Len(fs)
  BY FrontSame
<1>2. /\ Last(fs).env \in 1 .. n /\ Last(fs).env >= 2
      /\ \A j \in 1 .. Len(fs) - 1 : fs[j].env < Last(fs).env
  BY <1>1 DEF Sound, Standing
<1>3. m \in Nat \ {0} /\ \A i \in 1 .. Len(fs) - 1 : fs[i].env <= m
  <2>1. \A i \in 1 .. Len(fs) - 1 : fs[i].env \in 1 .. n
    BY <1>1 DEF Sound, Standing
  <2> QED
    BY <1>2, <2>1 DEF Sound, Standing
<1>4. Standing(Front(fs), m)
  BY <1>3, FrontStanding DEF Sound
<1>5. ASSUME ~k PROVE Matching(Front(fs), m)
  <2>1. Matching(fs, n) /\ m = n - 1
    BY <1>5 DEF Sound
  <2>2. n = fs[Len(fs)].env /\ Matching(Front(fs), EnvBelow(fs, Len(fs)))
    BY <2>1, FrontMatching
  <2>3. fs[Len(fs)].env = EnvBelow(fs, Len(fs)) + 1
    BY <1>1, <2>1 DEF Matching
  <2>4. EnvBelow(fs, Len(fs)) \in Int
    BY BelowInt DEF Sound
  <2>5. m = EnvBelow(fs, Len(fs))
    BY <2>1, <2>2, <2>3, <2>4
  <2> QED
    BY <2>2, <2>5
<1>6. Guarding(Front(fs), f)
  BY FrontGuarding DEF Sound, Own
<1> QED
  BY <1>1, <1>4, <1>5, <1>6 DEF Sound

-----------------------------------------------------------------------------
(* What is left when all activations go *)

LEMMA Smallest ==
    ASSUME NEW S, S \subseteq Nat, S # {}
    PROVE  Min(S) \in S /\ \A i \in S : Min(S) <= i
<1> DEFINE Under == {p \in Nat \X Nat : p[1] < p[2]}
<1>1. IsWellFoundedOn(Under, Nat)
  BY NatLessThanWellFounded, Zenon DEF OpToRel
<1>2. \A i, j \in Nat : i < j => <<i, j>> \in Under
  OBVIOUS
<1> HIDE DEF Under
<1>3. PICK m \in S : \A i \in S : ~(<<i, m>> \in Under)
  BY <1>1, WFMin
<1>4. \A i \in S : i \in Nat /\ m \in Nat /\ ~(i < m)
  BY <1>2, <1>3
<1>5. \A i \in S : m <= i
  BY <1>4
<1> QED
  BY <1>5 DEF Min

LEMMA CutEnvs ==
    ASSUME NEW s \in Seq(Env), NEW k \in Nat
    PROVE  /\ Cut(s, k) \in Seq(Env)
           /\ Len(Cut(s, k)) = IF Len(s) > k THEN k ELSE Len(s)
<1>1. Len(s) \in Nat
  BY LenProperties
<1>2. CASE Len(s) > k
  <2>1. k \in 0 .. Len(s)
    BY <1>1, <1>2
  <2> QED
    BY <2>1, <1>2, CutSeq DEF Cut
<1>3. CASE ~(Len(s) > k)
  BY <1>3 DEF Cut
<1> QED
  BY <1>2, <1>3

LEMMA UnguardedFacts ==
    ASSUME DispatchInv
    PROVE  /\ Unguarded \in Seq(Env) /\ Len(Unguarded) \in Nat \ {0}
           /\ ~leaked /\ (\A i \in DOMAIN acts : acts[i].kind # "event") => Len(Unguarded) = 1
<1> DEFINE calls == {i \in DOMAIN acts : Guarded(acts[i])}
           n == Len(callStack)
<1>1. /\ callStack \in Seq(Env) /\ acts \in Seq(Act) /\ n \in Nat \ {0}
      /\ DOMAIN acts = 1 .. Len(acts) /\ Len(acts) \in Nat
  BY LenProperties DEF DispatchInv, FrameTypes, Sound, Standing
<1>2. ~leaked => Matching(acts, n)
  BY DEF DispatchInv, Sound
<1>3. CASE calls = {}
  <2>1. Unguarded = callStack
    BY <1>3 DEF Unguarded
  <2>2. ASSUME ~leaked, \A i \in DOMAIN acts : acts[i].kind # "event"
        PROVE  n = 1
    <3>1. \A i \in 1 .. Len(acts) : ~Own(acts[i])
      BY <1>1, <1>3, <2>2 DEF Own, Guarded
    <3>2. n = EnvBelow(acts, Len(acts) + 1)
      BY <1>2, <2>2 DEF Matching
    <3>3. Len(acts) # 0 => acts[Len(acts)].env = 1
      <4>1. Len(acts) # 0 => Len(acts) \in 1 .. Len(acts)
        BY <1>1
      <4> QED
        BY <4>1, <3>1, <1>2, <2>2 DEF Matching
    <3> QED
      BY <3>2, <3>3, <1>1 DEF EnvBelow
  <2> QED
    BY <1>1, <2>1, <2>2
<1>4. CASE calls # {}
  <2>1. PICK m \in calls : m = Min(calls) /\ \A i \in calls : m <= i
    <3>1. calls \subseteq Nat
      BY <1>1
    <3> HIDE DEF calls
    <3> QED
      BY <3>1, <1>4, Smallest
  <2>2. /\ m \in 1 .. Len(acts) /\ Own(acts[m]) /\ acts[m] \in Act
        /\ acts[m].env \in 1 .. n /\ acts[m].env >= 2
    BY <1>1, <2>1, ElementOfSeq DEF Guarded, Own, DispatchInv, Sound, Standing
  <2>3. Unguarded = Cut(callStack, acts[m].env - 1)
    BY <1>4, <2>1 DEF Unguarded
  <2>4. acts[m].env - 1 \in Nat \ {0} /\ n > acts[m].env - 1
    BY <1>1, <2>2
  <2>5. Unguarded \in Seq(Env) /\ Len(Unguarded) = acts[m].env - 1
    BY <1>1, <2>3, <2>4, CutEnvs
  <2>6. ASSUME ~leaked, \A i \in DOMAIN acts : acts[i].kind # "event"
        PROVE  acts[m].env = 2
    <3>1. \A i \in 1 .. m - 1 : i \in DOMAIN acts /\ i \notin calls
      <4>1. \A i \in 1 .. m - 1 : i \in DOMAIN acts /\ ~(m <= i)
        BY <1>1, <2>2
      <4> HIDE DEF calls
      <4> QED
        BY <4>1, <2>1
    <3>2. \A i \in 1 .. m - 1 : ~Own(acts[i])
      BY <3>1, <2>6 DEF Own, Guarded
    <3>3. acts[m].env = EnvBelow(acts, m) + 1
      BY <1>2, <2>2, <2>6 DEF Matching
    <3>4. m # 1 => acts[m - 1].env = 1
      <4>1. m # 1 => m - 1 \in 1 .. Len(acts)
        BY <1>1, <2>2
      <4> QED
        BY <4>1, <3>2, <1>2, <2>6 DEF Matching
    <3> QED
      BY <3>3, <3>4 DEF EnvBelow
  <2> QED
    BY <2>4, <2>5, <2>6
<1> QED
  BY <1>3, <1>4

LEMMA UnsavedFacts ==
    ASSUME DispatchInv
    PROVE  Unsaved = TRUE
<1> DEFINE saving == {i \in DOMAIN acts : acts[i].kind = "execute"}
<1>1. /\ acts \in Seq(Act) /\ enable \in BOOLEAN /\ Guarding(acts, enable)
      /\ DOMAIN acts = 1 .. Len(acts) /\ Len(acts) \in Nat
  BY LenProperties DEF DispatchInv, FrameTypes, Sound
<1>2. CASE saving = {}
  <2>1. Outside(acts, Len(acts) + 1)
    BY <1>1, <1>2 DEF Outside
  <2> QED
    BY <1>1, <1>2, <2>1 DEF Unsaved, Guarding
<1>3. CASE saving # {}
  <2>1. PICK m \in saving : m = Min(saving) /\ \A i \in saving : m <= i
    <3>1. saving \subseteq Nat
      BY <1>1
    <3> HIDE DEF saving
    <3> QED
      BY <3>1, <1>3, Smallest
  <2>2. Outside(acts, m)
    <3>1. m \in 1 .. Len(acts) /\ m \in Nat
      BY <1>1
    <3>2. SUFFICES ASSUME NEW j \in 1 .. m - 1
                   PROVE  acts[j].kind # "execute"
      BY DEF Outside
    <3>3. j \in DOMAIN acts /\ ~(m <= j)
      BY <1>1, <3>1
    <3>4. j \notin saving
      <4> HIDE DEF saving
      <4> QED
        BY <2>1, <3>3
    <3> QED
      BY <3>3, <3>4
  <2>3. acts[m].saved = TRUE
    BY <1>1, <2>1, <2>2 DEF Guarding
  <2> QED
    BY <1>3, <2>1, <2>3 DEF Unsaved
<1> QED
  BY <1>2, <1>3

LEMMA NoneSound ==
    ASSUME NEW n \in Nat \ {0}, NEW l, ~l => n = 1
    PROVE  Sound(<<>>, n, TRUE, l)
<1>1. Len(<<>>) = 0
  BY EmptySeq
<1> QED
  BY <1>1 DEF Sound, Standing, Matching, Guarding, Outside, EnvBelow

-----------------------------------------------------------------------------
(* The steps *)

LEMMA InvFacts ==
    ASSUME DispatchInv
    PROVE  /\ callStack \in Seq(Env) /\ acts \in Seq(Act)
           /\ enable \in BOOLEAN /\ leaked \in BOOLEAN
           /\ Len(callStack) \in Nat \ {0} /\ Back \in Env
           /\ Sound(acts, Len(callStack), enable, leaked)
           /\ acts # <<>> => Below \in Seq(Act) /\ Top \in Act /\ Top = acts[Len(acts)]
<1>1. /\ callStack \in Seq(Env) /\ acts \in Seq(Act)
      /\ enable \in BOOLEAN /\ leaked \in BOOLEAN
      /\ Len(callStack) \in Nat \ {0}
      /\ Sound(acts, Len(callStack), enable, leaked)
  BY DEF DispatchInv, FrameTypes, Sound, Standing
<1>2. callStack # <<>>
  BY <1>1, EmptySeq
<1>3. Back \in Env
  BY <1>1, <1>2, FrontOf DEF Back
<1>4. acts # <<>> => Below \in Seq(Act) /\ Top \in Act /\ Top = acts[Len(acts)]
  BY <1>1, FrontOf DEF Below, Top
<1> QED
  BY <1>1, <1>3, <1>4

(* Only the place of activations changes, and what an environment holds. *)
LEMMA QuietStep ==
    ASSUME DispatchInv, SameFrames(acts, acts'),
           callStack' \in Seq(Env), Len(callStack') = Len(callStack),
           enable' = enable, leaked' = leaked
    PROVE  DispatchInv'
<1>1. acts' \in Seq(Act) /\ Sound(acts', Len(callStack), enable, leaked)
  BY InvFacts, SameSound
<1> QED
  BY <1>1, InvFacts DEF DispatchInv, FrameTypes

LEMMA PlaceSame ==
    ASSUME DispatchInv, NEW at \in Places
    PROVE  SameFrames(acts, TopAt(at))
<1>1. acts \in Seq(Act) /\ Len(acts) \in Int
  BY InvFacts, LenProperties
<1> QED
  BY <1>1, PlaceSet DEF TopAt

(* An activation that has no environment is left. *)
LEMMA BackStep ==
    ASSUME NEW fs \in Seq(Act), fs # <<>>,
           NEW n, NEW f, NEW l, Sound(fs, n, f, l),
           ~Own(Last(fs)),
           NEW g, g = IF Last(fs).kind = "execute" THEN Last(fs).saved ELSE f
    PROVE  Stepped(Front(fs)) \in Seq(Act) /\ Sound(Stepped(Front(fs)), n, g, l)
BY PopSound, SteppedSame, SameSound

LEMMA AsksStep ==
    ASSUME DispatchInv, NEW env \in Env, Asks(env)
    PROVE  DispatchInv'
<1>1. Len(callStack) \in 1 .. Len(callStack)
  BY InvFacts
<1>2. /\ [callStack EXCEPT ![Len(callStack)] = env] \in Seq(Env)
      /\ Len([callStack EXCEPT ![Len(callStack)] = env]) = Len(callStack)
  BY <1>1, InvFacts, SetSeq
<1>3. SameFrames(acts, Stepped(acts))
  BY InvFacts, SteppedSame
<1> QED
  BY <1>2, <1>3, QuietStep DEF Asks

LEMMA AskingSteps ==
    ASSUME DispatchInv,
           \/ \E set \in BOOLEAN : OnIoError(set)
           \/ Catch
           \/ CatchCancel
           \/ \E value \in OnErrors : OnError(value)
    PROVE  DispatchInv'
<1>1. \A b \in BOOLEAN : [Back EXCEPT !.ioError = b] \in Env /\ [Back EXCEPT !.catch = b] \in Env
  BY InvFacts DEF Env
<1>2. \A v \in OnErrors : [Back EXCEPT !.onError = v] \in Env
  BY InvFacts, OnErrorsAssumption DEF Env
<1>3. CASE \E set \in BOOLEAN : OnIoError(set)
  BY <1>1, <1>3, AsksStep DEF OnIoError
<1>4. CASE Catch
  BY <1>1, <1>4, AsksStep DEF Catch
<1>5. CASE CatchCancel
  BY <1>1, <1>5, AsksStep DEF CatchCancel
<1>6. CASE \E value \in OnErrors : OnError(value)
  BY <1>2, <1>6, AsksStep DEF OnError
<1> QED
  BY <1>3, <1>4, <1>5, <1>6

(* The statement goes on elsewhere, and an error may rise or be handled. *)
LEMMA PlaceSteps ==
    ASSUME DispatchInv, Return \/ Skip \/ Ignore \/ Jump \/ LeaveMain
                        \/ \E io \in BOOLEAN : Raise(io)
    PROVE  DispatchInv'
<1>1. /\ callStack' = callStack /\ enable' = enable /\ leaked' = leaked
  BY DEF Return, Skip, Ignore, Jump, LeaveMain, Raise
<1>2. SameFrames(acts, acts)
  BY InvFacts DEF SameFrames
<1>3. CASE Return \/ Ignore \/ Jump
  BY <1>1, <1>3, PlaceSame, InvFacts, QuietStep DEF Return, Ignore, Jump, Places
<1>4. CASE Skip
  <2>1. Len(acts) - 1 \in Int
    BY InvFacts, LenProperties
  <2> QED
    BY <1>1, <1>4, <2>1, PlaceSet, InvFacts, QuietStep DEF Skip, Places
<1>5. CASE LeaveMain \/ \E io \in BOOLEAN : Raise(io)
  BY <1>1, <1>2, <1>5, InvFacts, QuietStep DEF LeaveMain, Raise
<1> QED
  BY <1>3, <1>4, <1>5

(* An activation in the environment on top is pushed. *)
LEMMA PushStep ==
    ASSUME DispatchInv, NEW kind \in (Loops \cup Runs) \ {"call", "event"}, NEW at \in Places,
           kind \in Loops => acts # <<>>,
           acts' = Append(acts, NewAct(kind, at, Len(callStack))),
           callStack' = callStack, leaked' = leaked,
           enable' \in BOOLEAN, enable' <=> (enable /\ kind # "execute")
    PROVE  DispatchInv'
<1> DEFINE act == NewAct(kind, at, Len(callStack))
<1>1. /\ act \in Act /\ ~Own(act) /\ act.kind = kind
      /\ act.env = Len(callStack) /\ act.saved = enable
  BY InvFacts DEF NewAct, Act, Own, Places
<1> HIDE DEF act
<1>2. Append(acts, act) \in Seq(Act) /\ Sound(Append(acts, act), Len(callStack), enable', leaked)
  BY <1>1, InvFacts, PushSound
<1> QED
  BY <1>2, InvFacts DEF DispatchInv, FrameTypes, act

(* Lines, EXECUTE and the inner loops. *)
LEMMA PushingSteps ==
    ASSUME DispatchInv, TypeLine \/ Execute \/ Stop \/ Halt
    PROVE  DispatchInv'
<1>1. enable \in BOOLEAN
  BY InvFacts
<1>2. CASE TypeLine
  BY <1>1, <1>2, PushStep DEF TypeLine, Loops, Runs, Places
<1>3. CASE Execute
  BY <1>1, <1>3, PushStep DEF Execute, Loops, Runs, Places
<1>4. ASSUME NEW kind \in Loops, acts # <<>>, Opens(kind),
             callStack' = callStack, enable' = enable, leaked' = leaked
      PROVE  DispatchInv'
  BY <1>1, <1>4, PushStep DEF Opens, Loops, Runs, Places
<1>5. ASSUME acts' = TopAt("abort"),
             callStack' = callStack, enable' = enable, leaked' = leaked
      PROVE  DispatchInv'
  BY <1>5, PlaceSame, InvFacts, QuietStep DEF Places
<1>6. CASE Stop
  BY <1>4, <1>5, <1>6 DEF Stop, Running, Stands, Loops
<1>7. CASE Halt
  BY <1>4, <1>5, <1>7 DEF Halt, Passed, Caught, Loops
<1> QED
  BY <1>2, <1>3, <1>6, <1>7

(* Routines and call-backs. *)
LEMMA EnterSteps ==
    ASSUME DispatchInv, NEW kind \in {"call", "event"}, Enters(kind)
    PROVE  DispatchInv'
<1> DEFINE n == Len(callStack)
           act == NewAct(kind, "body", n + 1)
<1>1. act \in Act /\ Own(act) /\ act.env = n + 1
  BY InvFacts DEF NewAct, Act, Own, Runs
<1>2. NewEnv \in Env
  BY DEF NewEnv, Env
<1>3. callStack' \in Seq(Env) /\ Len(callStack') = n + 1
  BY <1>2, InvFacts, PushSeq DEF Enters
<1>4. acts' = Append(acts, act) /\ enable' = enable /\ leaked' = leaked
  BY DEF Enters
<1> HIDE DEF act
<1>5. Append(acts, act) \in Seq(Act) /\ Sound(Append(acts, act), n + 1, enable, leaked)
  BY <1>1, InvFacts, EnterSound
<1> QED
  BY <1>3, <1>4, <1>5, InvFacts DEF DispatchInv, FrameTypes

(* RETALL, .RESET_SESSION *)
LEMMA UnwindingSteps ==
    ASSUME DispatchInv, RetAll \/ Reset
    PROVE  DispatchInv'
<1> DEFINE gone == \E i \in DOMAIN acts : acts[i].kind = "event"
<1>1. /\ Unguarded \in Seq(Env) /\ Len(Unguarded) \in Nat \ {0}
      /\ ~leaked /\ ~gone => Len(Unguarded) = 1
  BY UnguardedFacts
<1>2. ASSUME NEW stack \in Seq(Env), Len(stack) = Len(Unguarded), Unwinds(stack)
      PROVE  DispatchInv'
  <2>1. /\ acts' = <<>> /\ callStack' = stack /\ enable' = TRUE
        /\ leaked' = (leaked \/ gone)
    BY <1>2, UnsavedFacts DEF Unwinds
  <2>2. leaked' \in BOOLEAN /\ (~leaked' => Len(stack) = 1)
    BY <1>1, <1>2, <2>1
  <2>3. Sound(<<>>, Len(stack), TRUE, leaked')
    BY <1>1, <1>2, <2>2, NoneSound
  <2> QED
    BY <2>1, <2>2, <2>3, EmptySeq DEF DispatchInv, FrameTypes
<1>3. CASE RetAll
  BY <1>1, <1>2, <1>3 DEF RetAll
<1>4. CASE Reset
  <2>1. NewEnv \in Env
    BY DEF NewEnv, Env
  <2>2. Unguarded # <<>>
    BY <1>1, EmptySeq
  <2>3. Front(Unguarded) \in Seq(Env) /\ Len(Front(Unguarded)) = Len(Unguarded) - 1
    BY <1>1, <2>2, FrontOf
  <2>4. /\ Append(Front(Unguarded), NewEnv) \in Seq(Env)
        /\ Len(Append(Front(Unguarded), NewEnv)) = Len(Unguarded)
    BY <1>1, <2>1, <2>3, PushSeq
  <2> QED
    BY <1>2, <1>4, <2>4 DEF Reset
<1> QED
  BY <1>3, <1>4

(* A routine, a call-back, an EXECUTE or a line is over. *)
LEMMA LeavingSteps ==
    ASSUME DispatchInv, LeaveCall \/ LeaveExecute \/ LeaveLine
    PROVE  DispatchInv'
<1> DEFINE n == Len(callStack)
<1>1. acts # <<>> /\ leaked' = leaked
  BY DEF LeaveCall, LeaveExecute, LeaveLine, Over
<1>2. /\ acts \in Seq(Act) /\ Below \in Seq(Act) /\ Top \in Act /\ Top = acts[Len(acts)]
      /\ Len(acts) \in 1 .. Len(acts)
      /\ Sound(acts, n, enable, leaked) /\ n \in Nat \ {0}
  BY <1>1, InvFacts, FrontSame
<1>3. Top = Last(acts) /\ Below = Front(acts)
  BY DEF Top, Below
<1>4. CASE LeaveCall
  <2>1. Own(Top) /\ Top.env \in 1 .. n /\ Top.env >= 2
    BY <1>2, <1>4 DEF LeaveCall, Own, Sound, Standing
  <2>2. ~leaked => Top.env = n
    BY <1>1, <1>2, FrontMatching DEF Sound
  <2>3. acts' = Stepped(Below) /\ enable' = enable
    BY <1>4 DEF LeaveCall
  <2>4. /\ callStack' \in Seq(Env) /\ Len(callStack') \in Nat
        /\ Top.env - 1 <= Len(callStack') /\ Len(callStack') <= n
        /\ ~leaked => Len(callStack') = n - 1
    <3>1. CASE Top.kind = "event"
      <4>1. callStack # <<>> /\ callStack' = Front(callStack)
        BY <1>2, <1>4, <3>1, InvFacts, EmptySeq DEF LeaveCall
      <4>2. callStack' \in Seq(Env) /\ Len(callStack') = n - 1
        BY <4>1, InvFacts, FrontOf
      <4> QED
        BY <4>2, <2>1, <1>2
    <3>2. CASE Top.kind # "event"
      <4>1. Top.env - 1 \in Nat /\ callStack' = Cut(callStack, Top.env - 1)
        BY <1>4, <3>2, <2>1 DEF LeaveCall
      <4>2. /\ callStack' \in Seq(Env)
            /\ Len(callStack') = IF n > Top.env - 1 THEN Top.env - 1 ELSE n
        BY <4>1, InvFacts, CutEnvs
      <4> QED
        BY <4>2, <2>1, <2>2, <1>2
    <3> QED
      BY <3>1, <3>2
  <2>5. Below \in Seq(Act) /\ Sound(Below, Len(callStack'), enable, leaked)
    BY <1>1, <1>2, <1>3, <2>1, <2>4, LeaveSound
  <2>6. Stepped(Below) \in Seq(Act) /\ Sound(Stepped(Below), Len(callStack'), enable, leaked)
    BY <2>5, SteppedSame, SameSound
  <2> QED
    BY <2>3, <2>4, <2>6, <1>1, InvFacts DEF DispatchInv, FrameTypes
<1>5. CASE LeaveExecute
  <2>1. /\ ~Own(Top) /\ acts' = Stepped(Below) /\ enable' = Top.saved
        /\ Top.kind = "execute" /\ callStack' = callStack
    BY <1>5 DEF LeaveExecute, Own
  <2>2. acts' \in Seq(Act) /\ Sound(acts', n, enable', leaked)
    BY <1>1, <1>2, <1>3, <2>1, BackStep
  <2>3. enable' \in BOOLEAN
    BY <1>2, <2>1 DEF Act
  <2> QED
    BY <1>1, <2>1, <2>2, <2>3, InvFacts DEF DispatchInv, FrameTypes
<1>6. CASE LeaveLine
  <2>1. ~Own(Top) /\ Top.kind # "execute" /\ callStack' = callStack /\ enable' = enable
    BY <1>6 DEF LeaveLine, Own
  <2>2. Below \in Seq(Act) /\ Sound(Below, n, enable, leaked)
    BY <1>1, <1>2, <1>3, <2>1, PopSound
  <2>3. acts' \in Seq(Act) /\ Sound(acts', n, enable, leaked)
    <3>1. CASE InLoop(Below) /\ Top.at = "return"
      <4>1. /\ Below # <<>> /\ ~Own(Last(Below)) /\ Last(Below).kind # "execute"
            /\ acts' = [Front(Below) EXCEPT ![Len(Below) - 1].at = "return"]
        BY <1>6, <3>1 DEF LeaveLine, InLoop, Own, Loops
      <4>2. Front(Below) \in Seq(Act) /\ Sound(Front(Below), n, enable, leaked)
        BY <4>1, <2>2, PopSound
      <4>3. Len(Below) - 1 \in Int /\ "return" \in Places
        BY <2>2, LenProperties DEF Places
      <4>4. SameFrames(Front(Below), acts')
        BY <4>1, <4>2, <4>3, PlaceSet
      <4> QED
        BY <4>2, <4>4, SameSound
    <3>2. CASE ~(InLoop(Below) /\ Top.at = "return")
      BY <1>6, <3>2, <2>2 DEF LeaveLine
    <3> QED
      BY <3>1, <3>2
  <2> QED
    BY <1>1, <2>1, <2>3, InvFacts DEF DispatchInv, FrameTypes
<1> QED
  BY <1>4, <1>5, <1>6

(* .CONTINUE, .STEP *)
LEMMA ContinueStep ==
    ASSUME DispatchInv, Continue
    PROVE  DispatchInv'
<1>1. /\ acts # <<>> /\ ~Own(Last(acts)) /\ Last(acts).kind # "execute"
      /\ callStack' = callStack /\ enable' = enable /\ leaked' = leaked
      /\ acts' = Stepped(Below) \/ acts' = Below
  BY DEF Continue, InLoop, Own, Loops
<1>2. /\ Below \in Seq(Act) /\ Sound(Below, Len(callStack), enable, leaked)
      /\ Stepped(Below) \in Seq(Act) /\ Sound(Stepped(Below), Len(callStack), enable, leaked)
  BY <1>1, InvFacts, PopSound, BackStep DEF Below
<1> QED
  BY <1>1, <1>2, InvFacts DEF DispatchInv, FrameTypes

(* An error leaves the last activation of fs. *)
LEMMA ErrorLeaves ==
    ASSUME DispatchInv, NEW fs \in Seq(Act), fs # <<>>,
           Sound(fs, Len(callStack), enable, leaked), NEW target, Leaves(fs, target)
    PROVE  DispatchInv'
<1> DEFINE n == Len(callStack)
           act == Last(fs)
<1>1. /\ act \in Act /\ act = fs[Len(fs)] /\ Len(fs) \in 1 .. Len(fs)
      /\ callStack \in Seq(Env) /\ n \in Nat \ {0}
      /\ enable \in BOOLEAN /\ leaked \in BOOLEAN
  BY InvFacts, FrontOf, FrontSame
<1>2. /\ callStack' = IF Guarded(act) THEN Cut(callStack, act.env - 1) ELSE callStack
      /\ leaked' = (leaked \/ act.kind = "event")
      /\ enable' = IF act.kind = "execute" THEN act.saved ELSE enable
      /\ acts' = IF act.kind \in {"call", "event"} THEN Front(fs) ELSE Stepped(Front(fs))
  BY DEF Leaves
<1>3. CASE Own(act)
  <2>1. act.env \in 1 .. n /\ act.env >= 2 /\ act.kind # "execute" /\ act.kind \in {"call", "event"}
    BY <1>1, <1>3 DEF Own, Sound, Standing
  <2>2. ~leaked => act.env = n
    BY <1>1, FrontMatching DEF Sound
  <2>3. /\ callStack' \in Seq(Env) /\ Len(callStack') \in Nat
        /\ act.env - 1 <= Len(callStack') /\ Len(callStack') <= n
        /\ ~leaked' => ~leaked /\ Len(callStack') = n - 1
    <3>1. CASE act.kind = "event"
      <4>1. leaked' = TRUE
        BY <3>1, <1>2
      <4>2. callStack' = callStack
        BY <3>1, <1>2 DEF Guarded
      <4> QED
        BY <4>1, <4>2, <1>1, <2>1
    <3>2. CASE act.kind # "event"
      <4>1. act.env - 1 \in Nat /\ callStack' = Cut(callStack, act.env - 1)
        BY <1>2, <3>2, <2>1 DEF Guarded
      <4>2. /\ callStack' \in Seq(Env)
            /\ Len(callStack') = IF n > act.env - 1 THEN act.env - 1 ELSE n
        BY <1>1, <4>1, CutEnvs
      <4> QED
        BY <4>2, <2>1, <2>2, <1>1, <1>2
    <3> QED
      BY <3>1, <3>2
  <2>4. Front(fs) \in Seq(Act) /\ Sound(Front(fs), Len(callStack'), enable, leaked')
    BY <1>3, <2>3, LeaveSound
  <2>5. leaked' \in BOOLEAN
    BY <1>1, <1>2
  <2> QED
    BY <1>1, <1>2, <2>1, <2>3, <2>4, <2>5 DEF DispatchInv, FrameTypes
<1>4. CASE ~Own(act)
  <2>1. /\ callStack' = callStack /\ (leaked' <=> leaked) /\ leaked' \in BOOLEAN
        /\ acts' = Stepped(Front(fs))
    BY <1>1, <1>2, <1>4 DEF Own, Guarded
  <2>2. acts' \in Seq(Act) /\ Sound(acts', n, enable', leaked)
    BY <1>2, <1>4, <2>1, BackStep
  <2>3. enable' \in BOOLEAN /\ leaked' = leaked
    BY <1>1, <1>2, <2>1 DEF Act
  <2> QED
    BY <1>1, <2>1, <2>2, <2>3 DEF DispatchInv, FrameTypes
<1> QED
  BY <1>3, <1>4

LEMMA ErrorSteps ==
    ASSUME DispatchInv, Rethrow \/ LeaveLoop
    PROVE  DispatchInv'
<1>1. acts # <<>>
  BY DEF Rethrow, Passed, Caught, LeaveLoop, InLoop
<1>2. CASE Rethrow
  BY <1>1, <1>2, InvFacts, ErrorLeaves DEF Rethrow
<1>3. CASE LeaveLoop
  <2>1. Last(acts).kind \in Loops /\ ~Own(Last(acts)) /\ Last(acts).kind # "execute"
    BY <1>3 DEF LeaveLoop, InLoop, Own, Loops
  <2>2. Below \in Seq(Act) /\ Sound(Below, Len(callStack), enable, leaked)
    BY <1>1, <2>1, InvFacts, PopSound DEF Below
  <2>3. Below # <<>>
    <3>1. acts[Len(acts)].kind \in Loops /\ Len(acts) \in Nat \ {0}
      BY <1>1, <2>1, InvFacts, FrontOf
    <3>2. Len(acts) # 1
      BY <3>1, InvFacts DEF Sound, Standing
    <3>3. Len(Below) = Len(acts) - 1
      BY <1>1, InvFacts, FrontOf DEF Below
    <3> QED
      BY <3>1, <3>2, <3>3, EmptySeq
  <2>4. CASE Top.kind = "stop"
    BY <1>3, <2>2, <2>4, InvFacts DEF LeaveLoop, DispatchInv, FrameTypes
  <2>5. CASE Top.kind # "stop"
    BY <1>3, <2>2, <2>3, <2>5, ErrorLeaves DEF LeaveLoop
  <2> QED
    BY <2>4, <2>5
<1> QED
  BY <1>2, <1>3

-----------------------------------------------------------------------------
LEMMA DispatchInvInit == Init => DispatchInv
<1> SUFFICES ASSUME Init PROVE DispatchInv
  OBVIOUS
<1>1. /\ acts = <<>> /\ enable = TRUE /\ leaked = FALSE /\ callStack = <<NewEnv>>
  BY DEF Init
<1>2. NewEnv \in Env
  BY DEF NewEnv, Env
<1>3. callStack \in Seq(Env) /\ Len(callStack) = 1
  BY <1>1, <1>2
<1>4. Sound(<<>>, 1, TRUE, FALSE)
  <2>1. 1 \in Nat \ {0}
    OBVIOUS
  <2> QED
    BY <2>1, NoneSound, Zenon
<1> QED
  BY <1>1, <1>3, <1>4, EmptySeq DEF DispatchInv, FrameTypes

LEMMA DispatchInvStep == DispatchInv /\ [Next]_vars => DispatchInv'
<1> SUFFICES ASSUME DispatchInv, [Next]_vars PROVE DispatchInv'
  OBVIOUS
<1>1. CASE Statement
  <2>1. CASE Call
    BY <2>1, EnterSteps DEF Call
  <2> QED
    BY <1>1, <2>1, AskingSteps, PushingSteps, PlaceSteps, UnwindingSteps DEF Statement
<1>2. CASE User
  <2>1. CASE Event
    BY <2>1, EnterSteps DEF Event
  <2> QED
    BY <1>2, <2>1, PushingSteps, PlaceSteps, UnwindingSteps, ContinueStep DEF User
<1>3. CASE LeaveCall \/ LeaveExecute \/ LeaveLine
  BY <1>3, LeavingSteps
<1>4. CASE Dispatch
  BY <1>4, PlaceSteps, PushingSteps, ErrorSteps DEF Dispatch
<1>5. CASE UNCHANGED vars
  BY <1>5 DEF vars, DispatchInv, FrameTypes
<1> QED
  BY <1>1, <1>2, <1>3, <1>4, <1>5 DEF Next

LEMMA DispatchInvImplies == DispatchInv => InOwnEnv /\ EnabledOutside
<1> SUFFICES ASSUME DispatchInv PROVE InOwnEnv /\ EnabledOutside
  OBVIOUS
<1>1. acts \in Seq(Act) /\ DOMAIN acts = 1 .. Len(acts) /\ enable \in BOOLEAN
  BY InvFacts, LenProperties
<1>2. InOwnEnv
  <2> SUFFICES ASSUME ~leaked
               PROVE  Len(callStack) = IF acts = <<>> THEN 1 ELSE Top.env
    BY DEF InOwnEnv
  <2>1. Matching(acts, Len(callStack))
    BY InvFacts DEF Sound
  <2>2. CASE acts = <<>>
    BY <2>1, <2>2, EmptySeq DEF Matching, EnvBelow
  <2>3. CASE acts # <<>>
    BY <2>1, <2>3, <1>1, FrontMatching, InvFacts
  <2> QED
    BY <2>2, <2>3
<1>3. EnabledOutside
  <2>1. (enable = TRUE) <=> Outside(acts, Len(acts) + 1)
    BY InvFacts DEF Sound, Guarding
  <2>2. Len(acts) + 1 - 1 = Len(acts)
    BY <1>1, LenProperties
  <2>3. (enable = TRUE) <=> \A i \in DOMAIN acts : acts[i].kind # "execute"
    BY <1>1, <2>1, <2>2 DEF Outside
  <2> QED
    BY <1>1, <2>3 DEF EnabledOutside
<1> QED
  BY <1>2, <1>3

(* A statement always runs in the environment its activation was started   *)
(* for, and at the main prompt there is only $MAIN$: after any nesting of  *)
(* routines, EXECUTE, inner loops, errors, RETALL and .RESET_SESSION that  *)
(* has not left a call-back's environment behind (StackGuard,              *)
(* GDLInterpreter.cpp).                                                    *)
THEOREM StatementsInOwnEnv == Spec => []InOwnEnv
<1>1. Spec => []DispatchInv
  BY DispatchInvInit, DispatchInvStep, PTL DEF Spec
<1> QED
  BY <1>1, DispatchInvImplies, PTL

(* interruptEnable is set exactly if no EXECUTE is under way, although     *)
(* errors and RETALL leave several at once (the guard of execute()).       *)
THEOREM ExecuteIsGuarded == Spec => []EnabledOutside
<1>1. Spec => []DispatchInv
  BY DispatchInvInit, DispatchInvStep, PTL DEF Spec
<1> QED
  BY <1>1, DispatchInvImplies, PTL

-----------------------------------------------------------------------------
(* Where an error stops: the walk of the code, and the rules               *)

LEMMA Largest ==
    ASSUME NEW n \in Nat, NEW S, S \subseteq 0 .. n, S # {}
    PROVE  Max(S) \in S /\ \A i \in S : i <= Max(S)
<1> DEFINE T == {n - i : i \in S}
<1>1. T \subseteq Nat /\ T # {}
  <2>1. \A i \in S : i \in 0 .. n /\ n - i \in Nat
    OBVIOUS
  <2> QED
    BY <2>1
<1>2. Min(T) \in T /\ \A i \in T : Min(T) <= i
  <2> HIDE DEF T
  <2> QED
    BY <1>1, Smallest
<1>3. PICK m \in S : Min(T) = n - m
  BY <1>2
<1>4. \A i \in S : n - m <= n - i
  BY <1>2, <1>3
<1>5. m \in Nat /\ \A i \in S : i \in Nat /\ i <= m
  BY <1>4
<1>6. \E x \in S : \A y \in S : x >= y
  BY <1>5
<1> DEFINE x == Max(S)
<1>7. x \in S /\ \A y \in S : x >= y
  BY <1>6 DEF Max
<1> QED
  BY <1>7

(* An environment the walk over nested ON_ERROR, 2 passes. *)
Nested(i) == i > 1 /\ callStack[i].onError = 2

LEMMA WalkedStep == \A n \in Nat : Walked[n] = IF Nested(n) THEN Walked[n - 1] ELSE n
<1> DEFINE Unnested(i) == {j \in 0 .. i : ~Nested(j)}
           g == [i \in Nat |-> Max(Unnested(i))]
           F(f) == [i \in Nat |-> IF i > 1 /\ callStack[i].onError = 2 THEN f[i - 1] ELSE i]
<1>1. \A i \in Nat : Unnested(i) \subseteq 0 .. i /\ Unnested(i) # {}
  BY DEF Nested
<1>2. \A i \in Nat : /\ Max(Unnested(i)) \in Unnested(i)
                     /\ \A j \in Unnested(i) : j <= Max(Unnested(i))
  <2> HIDE DEF Unnested
  <2> QED
    BY <1>1, Largest
<1>3. ASSUME NEW i \in Nat, Nested(i)
      PROVE  i - 1 \in Nat /\ Unnested(i) = Unnested(i - 1)
  BY <1>3 DEF Nested
<1>4. ASSUME NEW i \in Nat, ~Nested(i)
      PROVE  Max(Unnested(i)) = i
  <2>1. i \in Unnested(i) /\ \A j \in Unnested(i) : j <= i /\ j \in Nat
    BY <1>4
  <2> HIDE DEF Unnested
  <2> QED
    BY <2>1, <1>2
<1>5. g = F(g)
  <2>1. ASSUME NEW i \in Nat
        PROVE  g[i] = IF Nested(i) THEN g[i - 1] ELSE i
    <3>1. g[i] = Max(Unnested(i))
      OBVIOUS
    <3>2. CASE Nested(i)
      BY <3>1, <3>2, <1>3
    <3>3. CASE ~Nested(i)
      BY <3>1, <3>3, <1>4
    <3> QED
      BY <3>2, <3>3
  <2> QED
    BY <2>1 DEF Nested
<1> HIDE DEF g
<1>6. Walked = F(Walked)
  BY <1>5 DEF Walked
<1> QED
  BY <1>6 DEF Nested

LEMMA WalkedValue ==
    ASSUME NEW n \in Nat \ {0}
    PROVE  /\ Walked[n] \in 1 .. n /\ ~Nested(Walked[n])
           /\ \A i \in Walked[n] + 1 .. n : Nested(i)
<1> DEFINE P(m) == /\ Walked[m] \in 1 .. m /\ ~Nested(Walked[m])
                   /\ \A i \in Walked[m] + 1 .. m : Nested(i)
           Bad == {m \in Nat \ {0} : ~P(m)}
<1>1. SUFFICES ASSUME Bad # {} PROVE FALSE
  OBVIOUS
<1>2. PICK m \in Bad : \A i \in Bad : m <= i
  <2>1. Bad \subseteq Nat
    OBVIOUS
  <2> HIDE DEF Bad
  <2> QED
    BY <1>1, <2>1, Smallest
<1>3. CASE ~Nested(m)
  <2>1. Walked[m] = m
    BY <1>3, WalkedStep
  <2> QED
    BY <1>3, <2>1
<1>4. CASE Nested(m)
  <2>1. m - 1 \in Nat \ {0} /\ ~(m <= m - 1) /\ m > 1
    BY <1>4 DEF Nested
  <2>2. P(m - 1)
    BY <2>1, <1>2
  <2>3. Walked[m] = Walked[m - 1]
    BY <1>4, WalkedStep
  <2>4. \A i \in Walked[m] + 1 .. m : i = m \/ i \in Walked[m] + 1 .. m - 1
    BY <2>1
  <2>5. P(m)
    BY <2>1, <2>2, <2>3, <2>4, <1>4
  <2> QED
    BY <2>5
<1> QED
  BY <1>3, <1>4

(* The code finds the environment the rules name, or none if no routine has *)
(* called ON_ERROR: then it is the one on top.                             *)
LEMMA TargetRules ==
    ASSUME callStack \in Seq(Env), callStack # <<>>
    PROVE  /\ Target \in 0 .. Len(callStack) /\ StopsAt \in 1 .. Len(callStack)
           /\ StopsAt = IF Target = 0 THEN Len(callStack) ELSE Target
<1> DEFINE n == Len(callStack)
           Asked(i) == callStack[i].onError # -1
           set == {i \in DOMAIN callStack : Asked(i)}
           ix == Max(set)
<1>1. /\ n \in Nat \ {0} /\ DOMAIN callStack = 1 .. n
      /\ \A i \in 1 .. n : callStack[i].onError \in -1 .. 3
  <2>1. n \in Nat \ {0} /\ DOMAIN callStack = 1 .. n
    BY EmptySeq, LenProperties
  <2>2. \A i \in 1 .. n : callStack[i] \in Env
    BY ElementOfSeq
  <2> QED
    BY <2>1, <2>2 DEF Env
<1>2. CASE set = {}
  <2>1. \A i \in DOMAIN callStack : ~Asked(i)
    BY <1>2
  <2>2. Target = 0 /\ StopsAt = n
    BY <1>2, <2>1 DEF Target, StopsAt
  <2> QED
    BY <2>2, <1>1
<1>3. CASE set # {}
  <2>1. ix \in set
    <3>1. set \subseteq 0 .. n
      BY <1>1
    <3> HIDE DEF set
    <3> QED
      BY <1>1, <1>3, <3>1, Largest
  <2>2. ix \in 1 .. n /\ callStack[ix].onError \in 0 .. 3
    BY <1>1, <2>1
  <2>3. ~ \A i \in DOMAIN callStack : ~Asked(i)
    BY <1>3
  <2> DEFINE Right(k) ==
            CASE callStack[ix].onError = 0 -> k = n
              [] callStack[ix].onError = 1 -> k = 1
              [] callStack[ix].onError = 2 ->
                    /\ k <= ix
                    /\ \A i \in k + 1 .. ix : callStack[i].onError = 2
                    /\ k = ix => k = 1
                    /\ k > 1 => callStack[k].onError # 2
              [] callStack[ix].onError = 3 -> k = ix
  <2>4. StopsAt = CHOOSE k \in DOMAIN callStack : Right(k)
    BY <2>3 DEF StopsAt
  <2>5. Target = CASE callStack[ix].onError = 0 -> n
              [] callStack[ix].onError = 1 -> 1
              [] callStack[ix].onError = 2 -> IF ix = 1 THEN 1 ELSE Walked[ix - 1]
              [] callStack[ix].onError = 3 -> ix
    BY <1>3 DEF Target
  <2> HIDE DEF ix
  <2>6. ASSUME NEW t \in 1 .. n, Target = t, \A k \in 1 .. n : Right(k) <=> k = t
        PROVE  StopsAt = t /\ Target = t
    <3> HIDE DEF Right
    <3> QED
      BY <2>4, <2>6, <1>1
  <2>7. CASE callStack[ix].onError = 0
    BY <2>5, <2>6, <2>7, <1>1
  <2>8. CASE callStack[ix].onError = 1
    BY <2>5, <2>6, <2>8, <1>1
  <2>9. CASE callStack[ix].onError = 3
    BY <2>2, <2>5, <2>6, <2>9, <1>1
  <2>10. CASE callStack[ix].onError = 2
    <3>1. CASE ix = 1
      <4>1. Target = 1 /\ 1 \in 1 .. n
        BY <3>1, <2>5, <2>10, <1>1
      <4>2. \A k \in 1 .. n : Right(k) <=> k = 1
        BY <3>1, <2>10
      <4> HIDE DEF Right, n
      <4>3. StopsAt = 1
        BY <4>1, <4>2, <2>6
      <4> QED
        BY <4>1, <4>3, <1>1 DEF n
    <3>2. CASE ix # 1
      <4> DEFINE w == Walked[ix - 1]
      <4>1. ix - 1 \in Nat \ {0} /\ ix \in Nat
        BY <2>2, <3>2, <1>1
      <4>2. w \in 1 .. ix - 1 /\ ~Nested(w) /\ \A i \in w + 1 .. ix - 1 : Nested(i)
        BY <4>1, WalkedValue
      <4>3. Target = w
        BY <2>5, <2>10, <3>2
      <4> HIDE DEF w
      <4>4. \A i \in w + 1 .. ix : callStack[i].onError = 2
        BY <4>1, <4>2, <2>10 DEF Nested
      <4>5. w \in 1 .. n
        BY <4>1, <4>2, <2>2, <1>1
      <4>6. Right(w)
        BY <4>1, <4>2, <4>4, <2>10 DEF Nested
      <4>7. ASSUME NEW k \in 1 .. n, Right(k) PROVE k = w
        <5>1. /\ k <= ix
              /\ \A i \in k + 1 .. ix : callStack[i].onError = 2
              /\ k = ix => k = 1
              /\ k > 1 => callStack[k].onError # 2
          BY <4>7, <2>10
        <5> HIDE DEF Right
        <5>2. CASE k < w
          BY <5>1, <5>2, <4>1, <4>2, <1>1 DEF Nested
        <5>3. CASE k > w
          <6>1. k > 1 /\ callStack[k].onError # 2
            BY <5>1, <5>3, <4>2, <4>5
          <6>2. k \in w + 1 .. ix
            BY <5>1, <5>3, <4>1, <4>5
          <6> QED
            BY <6>1, <6>2, <4>4
        <5> QED
          BY <5>2, <5>3, <4>5
      <4>8. \A k \in 1 .. n : Right(k) <=> k = w
        <5> HIDE DEF Right
        <5> QED
          BY <4>5, <4>6, <4>7
      <4> HIDE DEF Right, n
      <4>9. StopsAt = w /\ Target = w
        BY <4>3, <4>5, <4>8, <2>6
      <4>10. w # 0 /\ w \in 0 .. n
        BY <4>5, <1>1
      <4> QED
        BY <4>5, <4>9, <4>10 DEF n
    <3> QED
      BY <3>1, <3>2
  <2> QED
    BY <2>2, <2>6, <2>7, <2>8, <2>9, <2>10, <1>1
<1> QED
  BY <1>2, <1>3

-----------------------------------------------------------------------------
(* How the stack of activations is built                                   *)

(* Routines and EXECUTE stand on the statement that called them.           *)
OnRuns(fs) ==
    \A i \in 1 .. Len(fs) :
        fs[i].kind \in {"call", "execute"} => i # 1 /\ fs[i - 1].kind \in Runs

(* Only an inner loop may be above the bound.                              *)
Bounded(fs) ==
    /\ Len(fs) <= MaxActs + 1
    /\ Len(fs) = MaxActs + 1 => fs[Len(fs)].kind \in Loops

BuildInv ==
    /\ DispatchInv
    /\ OnRuns(acts) /\ Bounded(acts) /\ Len(callStack) <= MaxStack

(* bs are the lowest of the activations fs.                                *)
Lowest(fs, bs) ==
    /\ bs \in Seq(Act) /\ Len(bs) <= Len(fs)
    /\ \A i \in 1 .. Len(bs) : bs[i].kind = fs[i].kind

LEMMA LowestBuilt ==
    ASSUME NEW fs \in Seq(Act), NEW bs, Lowest(fs, bs), OnRuns(fs), Bounded(fs)
    PROVE  OnRuns(bs) /\ Bounded(bs)
<1>1. Len(fs) \in Nat /\ Len(bs) \in Nat /\ MaxActs \in Nat
  BY LenProperties, BoundsAssumption DEF Lowest
<1>2. OnRuns(bs)
  <2> SUFFICES ASSUME NEW i \in 1 .. Len(bs), bs[i].kind \in {"call", "execute"}
               PROVE  i # 1 /\ bs[i - 1].kind \in Runs
    BY DEF OnRuns
  <2>1. i \in 1 .. Len(fs) /\ fs[i].kind = bs[i].kind
    BY <1>1 DEF Lowest
  <2>2. i # 1 /\ fs[i - 1].kind \in Runs
    BY <2>1 DEF OnRuns
  <2>3. i - 1 \in 1 .. Len(bs)
    BY <1>1, <2>2
  <2> QED
    BY <2>2, <2>3 DEF Lowest
<1>3. Bounded(bs)
  <2>1. Len(bs) <= MaxActs + 1
    BY <1>1 DEF Lowest, Bounded
  <2>2. ASSUME Len(bs) = MaxActs + 1 PROVE bs[Len(bs)].kind \in Loops
    <3>1. Len(fs) = Len(bs) /\ Len(bs) \in 1 .. Len(bs)
      BY <1>1, <2>2 DEF Lowest, Bounded
    <3> QED
      BY <2>2, <3>1 DEF Lowest, Bounded
  <2> QED
    BY <2>1, <2>2 DEF Bounded
<1> QED
  BY <1>2, <1>3

LEMMA SameLowest ==
    ASSUME NEW fs \in Seq(Act), NEW bs, SameFrames(fs, bs)
    PROVE  Lowest(fs, bs)
BY LenProperties DEF SameFrames, Lowest

LEMMA LowestLowest ==
    ASSUME NEW fs \in Seq(Act), NEW bs, NEW cs, Lowest(fs, bs), Lowest(bs, cs)
    PROVE  Lowest(fs, cs)
<1>1. Len(fs) \in Nat /\ Len(bs) \in Nat /\ Len(cs) \in Nat
  BY LenProperties DEF Lowest
<1> QED
  BY <1>1 DEF Lowest

LEMMA FrontLowest ==
    ASSUME NEW fs \in Seq(Act), fs # <<>>
    PROVE  /\ Lowest(fs, Front(fs)) /\ Lowest(fs, Stepped(Front(fs)))
<1>1. /\ Len(fs) \in Nat \ {0} /\ Front(fs) \in Seq(Act) /\ Len(Front(fs)) = Len(fs) - 1
      /\ \A i \in 1 .. Len(fs) - 1 : Front(fs)[i] = fs[i]
  BY FrontOf
<1>2. Lowest(fs, Front(fs))
  BY <1>1 DEF Lowest
<1>3. Lowest(Front(fs), Stepped(Front(fs)))
  BY <1>1, SteppedSame, SameLowest
<1> QED
  BY <1>2, <1>3, LowestLowest

LEMMA LowestStep ==
    ASSUME BuildInv, DispatchInv', Lowest(acts, acts'), Len(callStack') <= Len(callStack)
    PROVE  BuildInv'
<1>1. acts \in Seq(Act) /\ callStack \in Seq(Env) /\ callStack' \in Seq(Env)
  BY DEF BuildInv, DispatchInv, FrameTypes
<1>2. /\ Len(callStack) \in Nat /\ Len(callStack') \in Nat /\ MaxStack \in Nat
  BY <1>1, LenProperties, BoundsAssumption
<1>3. Len(callStack') <= MaxStack
  BY <1>2 DEF BuildInv
<1>4. OnRuns(acts') /\ Bounded(acts')
  BY <1>1, LowestBuilt DEF BuildInv
<1> QED
  BY <1>3, <1>4 DEF BuildInv

(* Only the top activation moves, or its environment changes.              *)
LEMMA StayingSteps ==
    ASSUME BuildInv,
           \/ \E set \in BOOLEAN : OnIoError(set)
           \/ Catch
           \/ CatchCancel
           \/ \E value \in OnErrors : OnError(value)
           \/ Return \/ Skip \/ Ignore \/ Jump \/ LeaveMain
           \/ \E io \in BOOLEAN : Raise(io)
    PROVE  Lowest(acts, acts') /\ Len(callStack') = Len(callStack)
<1>1. /\ DispatchInv /\ callStack \in Seq(Env) /\ acts \in Seq(Act)
      /\ Len(acts) \in Int
  BY InvFacts, LenProperties DEF BuildInv
<1>2. ASSUME NEW env, Asks(env)
      PROVE  Lowest(acts, acts') /\ Len(callStack') = Len(callStack)
  <2>1. Len(callStack') = Len(callStack)
    BY <1>1, <1>2, LenProperties DEF Asks
  <2> QED
    BY <1>1, <1>2, <2>1, SteppedSame, SameLowest DEF Asks
<1>3. CASE \/ \E set \in BOOLEAN : OnIoError(set)
           \/ Catch \/ CatchCancel
           \/ \E value \in OnErrors : OnError(value)
  BY <1>2, <1>3 DEF OnIoError, Catch, CatchCancel, OnError
<1>4. CASE Return \/ Ignore \/ Jump
  BY <1>1, <1>4, PlaceSame, SameLowest DEF Return, Ignore, Jump, Places
<1>5. CASE Skip
  <2>1. Len(acts) - 1 \in Int
    BY <1>1
  <2> QED
    BY <1>1, <1>5, <2>1, PlaceSet, SameLowest DEF Skip, Places
<1>6. CASE LeaveMain \/ \E io \in BOOLEAN : Raise(io)
  <2>1. SameFrames(acts, acts)
    BY <1>1 DEF SameFrames
  <2> QED
    BY <1>1, <1>6, <2>1, SameLowest DEF LeaveMain, Raise
<1> QED
  BY <1>3, <1>4, <1>5, <1>6

LEMMA UnguardedShort ==
    ASSUME DispatchInv
    PROVE  Len(Unguarded) <= Len(callStack)
<1> DEFINE calls == {i \in DOMAIN acts : Guarded(acts[i])}
<1>1. callStack \in Seq(Env) /\ acts \in Seq(Act) /\ Len(callStack) \in Nat
  BY InvFacts, LenProperties
<1>2. CASE calls = {}
  BY <1>1, <1>2 DEF Unguarded
<1>3. CASE calls # {}
  <2>1. calls \subseteq Nat
    BY <1>1, LenProperties
  <2>2. Min(calls) \in calls
    <3> HIDE DEF calls
    <3> QED
      BY <1>3, <2>1, Smallest
  <2> DEFINE m == Min(calls)
             k == acts[m].env - 1
  <2>3. k \in Nat
    <3>1. m \in 1 .. Len(acts) /\ Own(acts[m])
      BY <1>1, <2>2, LenProperties DEF Guarded, Own
    <3>2. acts[m].env \in 1 .. Len(callStack)
      BY <3>1, InvFacts DEF Sound, Standing
    <3> HIDE DEF m
    <3> QED
      BY <3>2, <1>1
  <2>4. Unguarded = Cut(callStack, k)
    BY <1>3 DEF Unguarded
  <2> HIDE DEF k
  <2> QED
    BY <1>1, <2>3, <2>4, CutEnvs
<1> QED
  BY <1>2, <1>3

LEMMA UnwindingLowest ==
    ASSUME BuildInv, RetAll \/ Reset
    PROVE  Lowest(acts, acts') /\ Len(callStack') <= Len(callStack)
<1>1. /\ Unguarded \in Seq(Env) /\ Len(Unguarded) \in Nat \ {0}
      /\ Len(Unguarded) <= Len(callStack) /\ acts \in Seq(Act)
  BY UnguardedFacts, UnguardedShort, InvFacts DEF BuildInv
<1>2. acts' = <<>>
  BY DEF RetAll, Reset, Unwinds
<1>3. Lowest(acts, acts')
  BY <1>1, <1>2, EmptySeq, LenProperties DEF Lowest
<1>4. CASE RetAll
  BY <1>1, <1>3, <1>4 DEF RetAll, Unwinds
<1>5. CASE Reset
  <2>1. NewEnv \in Env
    BY DEF NewEnv, Env
  <2>2. Unguarded # <<>>
    BY <1>1, EmptySeq
  <2>3. Front(Unguarded) \in Seq(Env) /\ Len(Front(Unguarded)) = Len(Unguarded) - 1
    BY <1>1, <2>2, FrontOf
  <2>4. Len(Append(Front(Unguarded), NewEnv)) = Len(Unguarded)
    BY <1>1, <2>1, <2>3, PushSeq
  <2> QED
    BY <1>1, <1>3, <1>5, <2>4 DEF Reset, Unwinds
<1> QED
  BY <1>4, <1>5

LEMMA LeavingLowest ==
    ASSUME BuildInv, \/ LeaveCall \/ LeaveExecute \/ LeaveLine
                     \/ Continue \/ Rethrow \/ LeaveLoop
    PROVE  Lowest(acts, acts') /\ Len(callStack') <= Len(callStack)
<1>1. /\ acts # <<>> /\ Top = Last(acts) /\ Below = Front(acts)
  BY DEF LeaveCall, LeaveExecute, LeaveLine, Over, Continue, InLoop, Rethrow,
         Passed, Caught, LeaveLoop, Top, Below
<1>2. /\ acts \in Seq(Act) /\ Below \in Seq(Act) /\ callStack \in Seq(Env)
      /\ Len(callStack) \in Nat \ {0}
      /\ Lowest(acts, Below) /\ Lowest(acts, Stepped(Below))
  BY <1>1, InvFacts, FrontLowest DEF BuildInv
<1>3. ASSUME NEW k \in Nat PROVE Len(Cut(callStack, k)) <= Len(callStack)
  BY <1>2, CutEnvs
<1>4. \A i \in 1 .. Len(acts) : acts[i].env \in 1 .. Len(callStack)
  BY InvFacts DEF BuildInv, Sound, Standing
<1>5. ASSUME NEW fs, fs # <<>>, fs \in Seq(Act), Lowest(acts, fs), NEW target, Leaves(fs, target),
             \A i \in 1 .. Len(fs) : fs[i].env \in 1 .. Len(callStack)
      PROVE  Lowest(acts, acts') /\ Len(callStack') <= Len(callStack)
  <2>1. Lowest(fs, Front(fs)) /\ Lowest(fs, Stepped(Front(fs)))
    BY <1>5, FrontLowest
  <2>2. acts' \in {Front(fs), Stepped(Front(fs))}
    BY <1>5 DEF Leaves
  <2>3. Lowest(acts, acts')
    BY <1>2, <1>5, <2>1, <2>2, LowestLowest
  <2>4. Last(fs) = fs[Len(fs)] /\ Len(fs) \in 1 .. Len(fs)
    BY <1>5, FrontSame
  <2>5. Last(fs).env - 1 \in Nat
    BY <1>2, <1>5, <2>4
  <2> DEFINE k == Last(fs).env - 1
  <2>6. callStack' \in {Cut(callStack, k), callStack}
    BY <1>5 DEF Leaves
  <2> HIDE DEF k
  <2>7. Len(Cut(callStack, k)) <= Len(callStack)
    BY <1>3, <2>5 DEF k
  <2>8. Len(callStack') <= Len(callStack)
    BY <1>2, <2>6, <2>7
  <2> QED
    BY <2>3, <2>8
<1>6. CASE LeaveCall
  <2>1. Lowest(acts, acts')
    BY <1>2, <1>6 DEF LeaveCall
  <2>2. Len(Front(callStack)) = Len(callStack) - 1
    BY <1>2, EmptySeq, FrontOf
  <2>3. Top.env - 1 \in Nat
    <3>1. Len(acts) \in 1 .. Len(acts) /\ Top = acts[Len(acts)]
      BY <1>1, <1>2, FrontOf
    <3> QED
      BY <3>1, <1>4, <1>2
  <2> DEFINE k == Top.env - 1
  <2>4. callStack' \in {Front(callStack), Cut(callStack, k)}
    BY <1>6 DEF LeaveCall
  <2> HIDE DEF k
  <2>5. Len(Cut(callStack, k)) <= Len(callStack)
    BY <1>3, <2>3 DEF k
  <2>6. Len(callStack') <= Len(callStack)
    BY <1>2, <2>2, <2>4, <2>5
  <2> QED
    BY <2>1, <2>6
<1>7. CASE LeaveExecute \/ Continue
  BY <1>2, <1>7 DEF LeaveExecute, Continue
<1>8. CASE LeaveLine
  <2>1. CASE InLoop(Below) /\ Top.at = "return"
    <3>1. Below # <<>> /\ acts' = [Front(Below) EXCEPT ![Len(Below) - 1].at = "return"]
      BY <1>8, <2>1 DEF LeaveLine, InLoop
    <3>2. Front(Below) \in Seq(Act) /\ Lowest(Below, Front(Below))
      BY <1>2, <3>1, FrontLowest, FrontOf
    <3>3. Len(Below) - 1 \in Int /\ "return" \in Places
      BY <1>2, LenProperties DEF Places
    <3>4. Lowest(Front(Below), acts')
      BY <3>1, <3>2, <3>3, PlaceSet, SameLowest
    <3> QED
      BY <1>2, <1>8, <3>2, <3>4, LowestLowest DEF LeaveLine
  <2>2. CASE ~(InLoop(Below) /\ Top.at = "return")
    <3>1. acts' = Below /\ callStack' = callStack
      BY <1>8, <2>2, Zenon DEF LeaveLine
    <3> QED
      BY <1>2, <3>1
  <2> QED
    BY <2>1, <2>2
<1>9. CASE Rethrow
  BY <1>1, <1>2, <1>4, <1>5, <1>9, SameLowest DEF Rethrow, SameFrames
<1>10. CASE LeaveLoop
  <2>1. CASE Top.kind = "stop"
    BY <1>2, <1>10, <2>1 DEF LeaveLoop
  <2>2. CASE Top.kind # "stop"
    <3>1. Below # <<>>
      <4>1. Len(acts) \in Nat \ {0} /\ Last(acts) = acts[Len(acts)] /\ Len(Below) = Len(acts) - 1
        BY <1>1, <1>2, FrontOf
      <4>2. acts[Len(acts)].kind \in Loops
        BY <1>10, <4>1 DEF LeaveLoop, InLoop
      <4>3. Len(acts) # 1
        BY <4>1, <4>2, InvFacts DEF BuildInv, Sound, Standing
      <4> QED
        BY <4>1, <4>3, EmptySeq
    <3>2. \A i \in 1 .. Len(Below) : Below[i].env \in 1 .. Len(callStack)
      <4>1. /\ Len(Below) = Len(acts) - 1 /\ Len(acts) \in Nat
            /\ \A i \in 1 .. Len(acts) - 1 : Below[i] = acts[i]
        BY <1>1, <1>2, FrontOf
      <4> QED
        BY <1>4, <4>1
    <3>3. Leaves(Below, thrown.target)
      BY <1>10, <2>2 DEF LeaveLoop
    <3> QED
      BY <1>2, <1>5, <3>1, <3>2, <3>3
  <2> QED
    BY <2>1, <2>2
<1> QED
  BY <1>6, <1>7, <1>8, <1>9, <1>10

(* An activation is pushed.                                                *)
LEMMA PushedStep ==
    ASSUME BuildInv, DispatchInv', NEW act \in Act, acts' = Append(acts, act),
           act.kind \in {"call", "execute"} => acts # <<>> /\ Top.kind \in Runs,
           Room \/ (act.kind \in Loops /\ acts # <<>> /\ Top.kind \in Runs),
           Len(callStack') <= MaxStack
    PROVE  BuildInv'
<1> DEFINE n == Len(acts)
<1>1. /\ acts \in Seq(Act) /\ n \in Nat /\ MaxActs \in Nat
      /\ acts # <<>> => n # 0 /\ Top = acts[n]
  BY InvFacts, LenProperties, EmptySeq, BoundsAssumption DEF BuildInv
<1>2. /\ Len(acts') = n + 1 /\ acts'[n + 1] = act
      /\ \A i \in 1 .. n : acts'[i] = acts[i]
  BY <1>1, PushSeq
<1>3. OnRuns(acts')
  <2> SUFFICES ASSUME NEW i \in 1 .. n + 1, acts'[i].kind \in {"call", "execute"}
               PROVE  i # 1 /\ acts'[i - 1].kind \in Runs
    BY <1>2 DEF OnRuns
  <2>1. CASE i = n + 1
    <3>1. n # 0 /\ acts[n].kind \in Runs
      BY <1>1, <1>2, <2>1
    <3> QED
      BY <3>1, <2>1, <1>1, <1>2
  <2>2. CASE i # n + 1
    <3>1. i \in 1 .. n /\ acts[i].kind \in {"call", "execute"}
      BY <1>1, <1>2, <2>2
    <3>2. i # 1 /\ acts[i - 1].kind \in Runs
      BY <3>1 DEF BuildInv, OnRuns
    <3> QED
      BY <1>1, <1>2, <3>1, <3>2
  <2> QED
    BY <2>1, <2>2
<1>4. Bounded(acts')
  <2>1. n <= MaxActs
    <3>1. CASE Room
      BY <3>1, <1>1 DEF Room
    <3>2. CASE acts # <<>> /\ Top.kind \in Runs
      BY <3>2, <1>1 DEF BuildInv, Bounded, Runs, Loops
    <3> QED
      BY <3>1, <3>2
  <2>2. n = MaxActs => act.kind \in Loops
    BY <1>1 DEF Room
  <2> QED
    BY <1>1, <1>2, <2>1, <2>2 DEF Bounded
<1> QED
  BY <1>3, <1>4 DEF BuildInv

LEMMA ActNew ==
    ASSUME BuildInv, NEW kind \in Loops \cup Runs, NEW at \in Places, NEW env \in Nat
    PROVE  NewAct(kind, at, env) \in Act /\ NewAct(kind, at, env).kind = kind
BY InvFacts DEF BuildInv, NewAct, Act, Places

LEMMA PushingBuilt ==
    ASSUME BuildInv, DispatchInv', TypeLine \/ Execute \/ Call \/ Event
    PROVE  BuildInv'
<1> DEFINE n == Len(callStack)
<1>1. /\ n \in Nat /\ n + 1 \in Nat /\ n <= MaxStack /\ MaxStack \in Nat
      /\ callStack \in Seq(Env)
  BY InvFacts, BoundsAssumption DEF BuildInv
<1>2. CASE TypeLine
  <2> DEFINE act == NewAct("line", "line", n)
  <2>1. act \in Act /\ act.kind = "line"
    BY <1>1, ActNew DEF Runs, Places
  <2>2. acts' = Append(acts, act) /\ Room /\ callStack' = callStack
    BY <1>2 DEF TypeLine
  <2> HIDE DEF act
  <2> QED
    BY <1>1, <2>1, <2>2, PushedStep
<1>3. CASE Execute
  <2> DEFINE act == NewAct("execute", "line", n)
  <2>1. act \in Act /\ act.kind = "execute"
    BY <1>1, ActNew DEF Runs, Places
  <2>2. /\ acts' = Append(acts, act) /\ Room /\ callStack' = callStack
        /\ acts # <<>> /\ Top.kind \in Runs
    BY <1>3 DEF Execute, Running, Stands
  <2> HIDE DEF act
  <2> QED
    BY <1>1, <2>1, <2>2, PushedStep
<1>4. CASE Call \/ Event
  <2>1. PICK kind \in {"call", "event"} :
            /\ Enters(kind)
            /\ kind = "call" => acts # <<>> /\ Top.kind \in Runs
    BY <1>4 DEF Call, Event, Running, Stands
  <2> DEFINE act == NewAct(kind, "body", n + 1)
  <2>2. act \in Act /\ act.kind = kind
    BY <1>1, ActNew DEF Runs, Places
  <2>3. acts' = Append(acts, act) /\ Room /\ Len(callStack') = n + 1 /\ n < MaxStack
    BY <2>1, <1>1 DEF Enters
  <2> HIDE DEF act
  <2>4. act.kind \in {"call", "execute"} => acts # <<>> /\ Top.kind \in Runs
    BY <2>1, <2>2
  <2> QED
    BY <1>1, <2>2, <2>3, <2>4, PushedStep
<1> QED
  BY <1>2, <1>3, <1>4

(* STOP and an error open an inner loop, or end the statement loop.        *)
LEMMA OpeningBuilt ==
    ASSUME BuildInv, DispatchInv', Stop \/ Halt
    PROVE  BuildInv'
<1>1. /\ acts # <<>> /\ Top.kind \in Runs /\ callStack' = callStack
      /\ \/ \E kind \in Loops : Opens(kind)
         \/ acts' = TopAt("abort")
  BY DEF Stop, Halt, Running, Stands, Passed, Caught, Loops
<1>2. Len(callStack) \in Nat /\ Len(callStack') <= MaxStack /\ DispatchInv
      /\ acts \in Seq(Act)
  BY <1>1, InvFacts DEF BuildInv
<1>3. CASE acts' = TopAt("abort")
  <2>1. "abort" \in Places
    BY DEF Places
  <2>2. Lowest(acts, acts')
    BY <1>2, <1>3, <2>1, PlaceSame, SameLowest
  <2> QED
    BY <1>1, <1>2, <2>2, LowestStep
<1>4. ASSUME NEW kind \in Loops, Opens(kind)
      PROVE  BuildInv'
  <2> DEFINE act == NewAct(kind, "body", Len(callStack))
  <2>1. act \in Act /\ act.kind = kind
    BY <1>2, ActNew DEF Places
  <2>2. acts' = Append(acts, act)
    BY <1>4 DEF Opens
  <2> HIDE DEF act
  <2>3. act.kind \notin {"call", "execute"}
    BY <2>1 DEF Loops
  <2> QED
    BY <1>1, <1>2, <2>1, <2>2, <2>3, PushedStep
<1> QED
  BY <1>1, <1>3, <1>4

LEMMA BuildNext ==
    ASSUME BuildInv, [Next]_vars
    PROVE  BuildInv'
<1>1. DispatchInv'
  BY DispatchInvStep DEF BuildInv
<1>2. CASE \/ \E set \in BOOLEAN : OnIoError(set)
           \/ Catch \/ CatchCancel
           \/ \E value \in OnErrors : OnError(value)
           \/ Return \/ Skip \/ Ignore \/ Jump \/ LeaveMain
           \/ \E io \in BOOLEAN : Raise(io)
  <2>1. Lowest(acts, acts') /\ Len(callStack') = Len(callStack)
    BY <1>2, StayingSteps
  <2>2. Len(callStack) \in Nat
    BY InvFacts DEF BuildInv
  <2> QED
    BY <1>1, <2>1, <2>2, LowestStep
<1>3. CASE RetAll \/ Reset
  BY <1>1, <1>3, UnwindingLowest, LowestStep
<1>4. CASE \/ LeaveCall \/ LeaveExecute \/ LeaveLine
           \/ Continue \/ Rethrow \/ LeaveLoop
  BY <1>1, <1>4, LeavingLowest, LowestStep
<1>5. CASE TypeLine \/ Execute \/ Call \/ Event
  BY <1>1, <1>5, PushingBuilt
<1>6. CASE Stop \/ Halt
  BY <1>1, <1>6, OpeningBuilt
<1>7. CASE UNCHANGED vars
  BY <1>1, <1>7 DEF vars, BuildInv
<1> QED
  BY <1>2, <1>3, <1>4, <1>5, <1>6, <1>7 DEF Next, Statement, User, Dispatch

-----------------------------------------------------------------------------
(* The error that is under way, and where it has to end                    *)

ThrownTypes == [up : BOOLEAN, io : BOOLEAN, target : 0 .. MaxStack, lined : BOOLEAN]
ExpectTypes == [at : 0 .. MaxActs + 1, jump : BOOLEAN]

ErrorTypes ==
    /\ inner \in BOOLEAN /\ thrown \in ThrownTypes /\ expect \in ExpectTypes
    /\ prompt \in Prompts

(* The activation act of an environment in cs takes an error: its handler  *)
(* is jumped to, or it is where the error ends, t being the environment    *)
(* where it stops.                                                         *)
Takes(act, cs, io) == (io /\ cs[act.env].ioError) \/ cs[act.env].catch
EndsAt(act, cs, io, t) ==
    /\ act.kind \in Runs
    /\ Takes(act, cs, io) \/ act.env = t \/ act.kind \in {"line", "execute"}

(* The activation at is the uppermost of fs that takes the error.          *)
Uppermost(at, jump, fs, cs, io, t) ==
    /\ at \in 0 .. Len(fs)
    /\ \A i \in 1 .. Len(fs) : i > at => ~EndsAt(fs[i], cs, io, t)
    /\ at # 0 => EndsAt(fs[at], cs, io, t)
    /\ jump <=> (at # 0 /\ Takes(fs[at], cs, io))

LEMMA RulesFacts ==
    ASSUME BuildInv, NEW io \in BOOLEAN
    PROVE  /\ Rules(io) \in ExpectTypes
           /\ prompt = "typed" => Rules(io).at = Len(acts) /\ ~Rules(io).jump
           /\ prompt # "typed" => Uppermost(Rules(io).at, Rules(io).jump, acts, callStack, io, StopsAt)
<1> DEFINE Ends(i) == EndsAt(acts[i], callStack, io, StopsAt)
           S == {i \in DOMAIN acts : Ends(i)} \cup {0}
           at == Max(S)
           jump == at # 0 /\ Takes(acts[at], callStack, io)
<1>1. /\ acts \in Seq(Act) /\ DOMAIN acts = 1 .. Len(acts) /\ Len(acts) \in Nat
      /\ MaxActs \in Nat /\ Len(acts) <= MaxActs + 1
  BY InvFacts, LenProperties, BoundsAssumption DEF BuildInv, Bounded
<1>2. at \in S /\ \A i \in S : i <= at
  <2>1. S \subseteq 0 .. Len(acts) /\ S # {}
    BY <1>1
  <2> HIDE DEF S
  <2> QED
    BY <1>1, <2>1, Largest
<1>3. at \in 0 .. Len(acts) /\ (at # 0 => Ends(at))
  BY <1>1, <1>2
<1>4. \A i \in 1 .. Len(acts) : i > at => ~Ends(i)
  <2> SUFFICES ASSUME NEW i \in 1 .. Len(acts), i > at, Ends(i) PROVE FALSE
    OBVIOUS
  <2>1. i \in S
    BY <1>1
  <2>2. i <= at
    <3> HIDE DEF at, S
    <3> QED
      BY <2>1, <1>2
  <2> QED
    BY <2>2, <1>1, <1>3
<1>5. Rules(io) = IF prompt = "typed" THEN [at |-> Len(acts), jump |-> FALSE]
                                      ELSE [at |-> at, jump |-> jump]
  BY DEF Rules, EndsAt, Takes
<1>6. jump \in BOOLEAN
  OBVIOUS
<1>7. jump <=> (at # 0 /\ Takes(acts[at], callStack, io))
  OBVIOUS
<1> HIDE DEF at, jump
<1>8. Uppermost(at, jump, acts, callStack, io, StopsAt)
  BY <1>3, <1>4, <1>7 DEF Uppermost
<1>9. CASE prompt = "typed"
  BY <1>1, <1>5, <1>9 DEF ExpectTypes
<1>10. CASE prompt # "typed"
  <2>1. Rules(io) = [at |-> at, jump |-> jump]
    BY <1>5, <1>10
  <2>2. Rules(io) \in ExpectTypes
    BY <2>1, <1>1, <1>3, <1>6 DEF ExpectTypes
  <2> QED
    BY <2>1, <2>2, <1>8, <1>10
<1> QED
  BY <1>9, <1>10

LEMMA StackThere ==
    ASSUME BuildInv
    PROVE  /\ callStack \in Seq(Env) /\ callStack # <<>>
           /\ Len(callStack) \in 1 .. MaxStack /\ MaxStack \in Nat
<1>1. callStack \in Seq(Env) /\ Len(callStack) \in Nat \ {0}
  BY InvFacts DEF BuildInv
<1> QED
  BY <1>1, EmptySeq, BoundsAssumption DEF BuildInv

LEMMA TargetEnvFacts ==
    ASSUME BuildInv, ErrorTypes
    PROVE  /\ TargetEnv \in 0 .. MaxStack
           /\ TargetEnv # 0 =>
                TargetEnv = IF thrown.target = 0 THEN StopsAt ELSE thrown.target
           /\ TargetEnv = 0 => thrown.target = 0 /\ StopsAt = Len(callStack)
<1>1. /\ Target \in 0 .. MaxStack
      /\ StopsAt = IF Target = 0 THEN Len(callStack) ELSE Target
  BY StackThere, TargetRules
<1>2. thrown.target \in 0 .. MaxStack
  BY DEF ErrorTypes, ThrownTypes
<1> QED
  BY <1>1, <1>2 DEF TargetEnv

LEMMA NoErrorTypes ==
    ASSUME Handled
    PROVE  thrown' \in ThrownTypes /\ expect' \in ExpectTypes
BY BoundsAssumption DEF Handled, NoError, NoExpect, ThrownTypes, ExpectTypes

LEMMA LeavesTypes ==
    ASSUME ErrorTypes, NEW fs, NEW target \in 0 .. MaxStack, Leaves(fs, target)
    PROVE  ErrorTypes'
<1>1. CASE Last(fs).kind \in {"call", "event"}
  <2>1. /\ thrown' = [thrown EXCEPT !.target = target]
        /\ inner' = inner /\ expect' = expect /\ prompt' = prompt
    BY <1>1 DEF Leaves
  <2> QED
    BY <2>1 DEF ErrorTypes, ThrownTypes
<1>2. CASE Last(fs).kind \notin {"call", "event"}
  <2>1. Handled /\ inner' \in {TRUE, inner} /\ prompt' \in {"waits", prompt}
    BY <1>2 DEF Leaves, AsksAgain
  <2> QED
    BY <2>1, NoErrorTypes DEF ErrorTypes, Prompts
<1> QED
  BY <1>1, <1>2

LEMMA ErrorTypesNext ==
    ASSUME BuildInv, ErrorTypes, [Next]_vars
    PROVE  ErrorTypes'
<1>1. CASE \/ \E set \in BOOLEAN : OnIoError(set)
           \/ Catch \/ CatchCancel
           \/ \E value \in OnErrors : OnError(value)
           \/ Call \/ Execute \/ Return \/ RetAll
           \/ TypeLine \/ Event \/ Continue \/ Skip \/ Reset
           \/ LeaveCall \/ LeaveExecute \/ UNCHANGED vars
  <2>1. UNCHANGED <<inner, thrown, expect>> /\ prompt' \in {"typed", "stale", prompt}
    BY <1>1 DEF OnIoError, Catch, CatchCancel, OnError, Asks, Call, Enters, Execute,
        Return, RetAll, Unwinds, TypeLine, Event, Continue, Skip, Reset, LeaveCall,
        LeaveExecute, vars
  <2> QED
    BY <2>1 DEF ErrorTypes, Prompts
<1>2. CASE Stop \/ LeaveLine
  <2>1. /\ inner' \in {TRUE, inner} /\ UNCHANGED <<thrown, expect>>
        /\ prompt' \in {"waits", "stale", prompt}
    BY <1>2 DEF Stop, LeaveLine, Opens, AsksAgain
  <2> QED
    BY <2>1 DEF ErrorTypes, Prompts
<1>3. CASE \E io \in BOOLEAN : (io => "ioerror" \in Ops) /\ Raise(io)
  <2>1. PICK io \in BOOLEAN : Raise(io)
    BY <1>3
  <2>2. /\ thrown' = [up |-> TRUE, io |-> io, target |-> 0, lined |-> Len(acts) > 1]
        /\ expect' = Rules(io) /\ inner' = inner /\ prompt' = prompt
    BY <2>1 DEF Raise
  <2>3. (Len(acts) > 1) \in BOOLEAN /\ 0 \in 0 .. MaxStack
    BY BoundsAssumption
  <2>4. thrown' \in ThrownTypes
    BY <2>2, <2>3 DEF ThrownTypes
  <2> QED
    BY <2>2, <2>4, RulesFacts DEF ErrorTypes
<1>4. CASE Ignore \/ Jump \/ Halt \/ LeaveMain
  <2>1. Handled /\ inner' \in BOOLEAN
    BY <1>4 DEF Ignore, FlagAfter, Jump, Halt, LeaveMain, Opens, ErrorTypes
  <2>2. prompt' \in {"none", "waits", "dropped", "stale", prompt}
    BY <1>4 DEF Ignore, Jump, Halt, LeaveMain, Opens
  <2> QED
    BY <2>1, <2>2, NoErrorTypes DEF ErrorTypes, Prompts
<1>5. CASE Rethrow
  BY <1>5, LeavesTypes, TargetEnvFacts DEF Rethrow
<1>6. CASE LeaveLoop
  <2>1. thrown.target \in 0 .. MaxStack
    BY DEF ErrorTypes, ThrownTypes
  <2> QED
    BY <1>6, <2>1, LeavesTypes DEF LeaveLoop, ErrorTypes
<1> QED
  BY <1>1, <1>2, <1>3, <1>4, <1>5, <1>6 DEF Next, Statement, User, Dispatch

LEMMA TypesInit == Init => BuildInv /\ ErrorTypes
<1> SUFFICES ASSUME Init PROVE BuildInv /\ ErrorTypes
  OBVIOUS
<1>1. /\ acts = <<>> /\ callStack = <<NewEnv>> /\ inner = FALSE
      /\ thrown = NoError /\ expect = NoExpect /\ prompt = "none"
  BY DEF Init
<1>2. Len(acts) = 0 /\ Len(callStack) = 1
  BY <1>1, EmptySeq
<1>3. ErrorTypes
  <2>1. 0 \in 0 .. MaxStack /\ 0 \in 0 .. MaxActs + 1
    BY BoundsAssumption
  <2>2. NoError \in ThrownTypes /\ NoExpect \in ExpectTypes
    BY <2>1 DEF ThrownTypes, ExpectTypes, NoError, NoExpect
  <2> QED
    BY <1>1, <2>2 DEF ErrorTypes, Prompts
<1> QED
  BY <1>2, <1>3, DispatchInvInit, BoundsAssumption DEF BuildInv, OnRuns, Bounded

LEMMA TypesImply == BuildInv /\ ErrorTypes => TypeOK
<1> SUFFICES ASSUME BuildInv, ErrorTypes PROVE TypeOK
  OBVIOUS
<1>1. /\ callStack \in Seq(Env) /\ acts \in Seq(Act)
      /\ enable \in BOOLEAN /\ leaked \in BOOLEAN
  BY DEF BuildInv, DispatchInv, FrameTypes
<1> QED
  BY <1>1, StackThere DEF TypeOK, BuildInv, Bounded, ErrorTypes, ThrownTypes, ExpectTypes

(* The stacks, the flags and the error in flight are what envt.cpp and      *)
(* dinterpreter.cpp keep: an error that unwinds, however many routines it   *)
(* leaves, names an environment, and there is always $MAIN$.                *)
THEOREM DispatchTypes == Spec => []TypeOK
<1>1. Init => BuildInv /\ ErrorTypes
  BY TypesInit
<1>2. BuildInv /\ ErrorTypes /\ [Next]_vars => (BuildInv /\ ErrorTypes)'
  BY BuildNext, ErrorTypesNext
<1>3. BuildInv /\ ErrorTypes => TypeOK
  BY TypesImply
<1> QED
  BY <1>1, <1>2, <1>3, PTL DEF Spec

-----------------------------------------------------------------------------
(* Inner prompts, and the flag inInnerInterpreterLoop                      *)

NoLoop(fs) == \A i \in 1 .. Len(fs) : fs[i].kind \notin Loops

(* On the uppermost inner loop stands a line that was typed there.         *)
OnTyped(fs) ==
    \E p \in 1 .. Len(fs) :
        /\ p + 1 \in 1 .. Len(fs)
        /\ fs[p].kind \in Loops /\ fs[p + 1].kind = "line"
        /\ \A i \in p + 1 .. Len(fs) : fs[i].kind \notin Loops

(* Unless an inner loop was left, the flag tells whether the errors of a   *)
(* typed line are to be ignored.                                           *)
Fits(fs, pr, flag, up) ==
    /\ pr = "none" => NoLoop(fs) /\ ~flag
    /\ pr = "waits" => InLoop(fs) /\ flag /\ ~up
    /\ pr = "typed" => OnTyped(fs) /\ flag
    /\ pr = "dropped" => OnTyped(fs) /\ ~flag

LEMMA LoopFacts ==
    ASSUME NEW fs \in Seq(Act), fs # <<>>
    PROVE  /\ Len(fs) \in 1 .. Len(fs) /\ Last(fs) = fs[Len(fs)]
           /\ InLoop(fs) <=> fs[Len(fs)].kind \in Loops
           /\ NoLoop(fs) => ~InLoop(fs)
           /\ OnTyped(fs) => ~InLoop(fs) /\ ~NoLoop(fs)
           /\ Last(fs).kind \in Runs => ~InLoop(fs)
<1>1. Len(fs) \in 1 .. Len(fs) /\ Last(fs) = fs[Len(fs)]
  BY FrontSame
<1>2. InLoop(fs) <=> fs[Len(fs)].kind \in Loops
  BY <1>1 DEF InLoop
<1>3. ASSUME OnTyped(fs) PROVE ~InLoop(fs) /\ ~NoLoop(fs)
  <2>1. PICK p \in 1 .. Len(fs) :
            /\ p + 1 \in 1 .. Len(fs) /\ fs[p].kind \in Loops
            /\ \A i \in p + 1 .. Len(fs) : fs[i].kind \notin Loops
    BY <1>3 DEF OnTyped
  <2>2. Len(fs) \in p + 1 .. Len(fs)
    BY <1>1, <2>1
  <2> QED
    BY <1>2, <2>1, <2>2 DEF NoLoop
<1> QED
  BY <1>1, <1>2, <1>3 DEF NoLoop, Runs, Loops

LEMMA LoopSame ==
    ASSUME NEW fs \in Seq(Act), NEW bs, SameFrames(fs, bs)
    PROVE  /\ NoLoop(bs) <=> NoLoop(fs)
           /\ InLoop(bs) <=> InLoop(fs)
           /\ OnTyped(bs) <=> OnTyped(fs)
<1>1. /\ bs \in Seq(Act) /\ Len(bs) = Len(fs) /\ Len(fs) \in Nat
      /\ \A i \in 1 .. Len(fs) : bs[i].kind = fs[i].kind
  BY LenProperties DEF SameFrames
<1>2. NoLoop(bs) <=> NoLoop(fs)
  BY <1>1 DEF NoLoop
<1>3. bs # <<>> <=> fs # <<>>
  BY <1>1, EmptySeq
<1>4. InLoop(bs) <=> InLoop(fs)
  <2>1. CASE fs = <<>>
    BY <1>3, <2>1 DEF InLoop
  <2>2. CASE fs # <<>>
    BY <1>1, <1>3, <2>2, LoopFacts
  <2> QED
    BY <2>1, <2>2
<1>5. \A p \in 1 .. Len(fs) : \A i \in p + 1 .. Len(fs) : i \in 1 .. Len(fs)
  BY <1>1
<1>6. OnTyped(bs) <=> OnTyped(fs)
  BY <1>1, <1>5 DEF OnTyped
<1> QED
  BY <1>2, <1>4, <1>6

LEMMA LoopPush ==
    ASSUME NEW fs \in Seq(Act), NEW act \in Act, act.kind \notin Loops
    PROVE  /\ NoLoop(fs) => NoLoop(Append(fs, act))
           /\ OnTyped(fs) => OnTyped(Append(fs, act))
           /\ InLoop(fs) /\ act.kind = "line" => OnTyped(Append(fs, act))
<1> DEFINE bs == Append(fs, act)
           n == Len(fs)
<1>1. /\ bs \in Seq(Act) /\ Len(bs) = n + 1 /\ n \in Nat /\ bs[n + 1] = act
      /\ \A i \in 1 .. n : bs[i] = fs[i]
  BY PushSeq, LenProperties
<1> HIDE DEF bs
<1>2. NoLoop(fs) => NoLoop(bs)
  BY <1>1 DEF NoLoop
<1>3. ASSUME OnTyped(fs) PROVE OnTyped(bs)
  <2>1. PICK p \in 1 .. n :
            /\ p + 1 \in 1 .. n /\ fs[p].kind \in Loops /\ fs[p + 1].kind = "line"
            /\ \A i \in p + 1 .. n : fs[i].kind \notin Loops
    BY <1>3 DEF OnTyped
  <2>2. p \in 1 .. n + 1 /\ p + 1 \in 1 .. n + 1
    BY <1>1, <2>1
  <2>3. \A i \in p + 1 .. n + 1 : bs[i].kind \notin Loops
    <3>1. \A i \in p + 1 .. n + 1 : i = n + 1 \/ (i \in p + 1 .. n /\ i \in 1 .. n)
      BY <1>1, <2>1
    <3> QED
      BY <1>1, <2>1, <3>1
  <2> QED
    BY <1>1, <2>1, <2>2, <2>3 DEF OnTyped
<1>4. ASSUME InLoop(fs), act.kind = "line" PROVE OnTyped(bs)
  <2>1. n \in 1 .. n /\ fs[n].kind \in Loops
    BY <1>4, LoopFacts DEF InLoop
  <2>2. n \in 1 .. Len(bs) /\ n + 1 \in 1 .. Len(bs) /\ bs[n].kind \in Loops
    BY <1>1, <2>1
  <2>3. \A i \in n + 1 .. Len(bs) : bs[i].kind \notin Loops
    BY <1>1
  <2> QED
    BY <1>1, <1>4, <2>2, <2>3 DEF OnTyped
<1> QED
  BY <1>2, <1>3, <1>4 DEF bs

(* A statement loop is left; a line on an inner loop goes back to it.      *)
LEMMA LoopPop ==
    ASSUME NEW fs \in Seq(Act), fs # <<>>, fs[Len(fs)].kind \notin Loops
    PROVE  /\ NoLoop(fs) => NoLoop(Front(fs))
           /\ (fs[Len(fs)].kind = "line" /\ InLoop(Front(fs))) \/ (OnTyped(fs) => OnTyped(Front(fs)))
<1> DEFINE bs == Front(fs)
           n == Len(fs)
<1>1. /\ bs \in Seq(Act) /\ Len(bs) = n - 1 /\ n \in Nat \ {0}
      /\ \A i \in 1 .. n - 1 : bs[i] = fs[i]
  BY FrontOf
<1> HIDE DEF bs
<1>2. NoLoop(fs) => NoLoop(bs)
  BY <1>1 DEF NoLoop
<1>3. ASSUME OnTyped(fs), ~(fs[n].kind = "line" /\ InLoop(bs)) PROVE OnTyped(bs)
  <2>1. PICK p \in 1 .. n :
            /\ p + 1 \in 1 .. n /\ fs[p].kind \in Loops /\ fs[p + 1].kind = "line"
            /\ \A i \in p + 1 .. n : fs[i].kind \notin Loops
    BY <1>3 DEF OnTyped
  <2>2. ASSUME p + 1 = n PROVE FALSE
    <3>1. p = Len(bs) /\ p \in 1 .. n - 1
      BY <1>1, <2>1, <2>2
    <3>2. bs # <<>> /\ bs[Len(bs)].kind \in Loops
      BY <1>1, <2>1, <3>1, EmptySeq
    <3>3. InLoop(bs)
      BY <1>1, <3>2, LoopFacts
    <3> QED
      BY <1>3, <2>1, <2>2, <3>3
  <2>3. p \in 1 .. n - 1 /\ p + 1 \in 1 .. n - 1
    BY <1>1, <2>1, <2>2
  <2>4. \A i \in p + 1 .. n - 1 : i \in p + 1 .. n /\ i \in 1 .. n - 1
    BY <1>1, <2>1
  <2> QED
    BY <1>1, <2>1, <2>3, <2>4 DEF OnTyped
<1> QED
  BY <1>2, <1>3 DEF bs

FitsNow == Fits(acts, prompt, inner, thrown.up)

LEMMA FitsSame ==
    ASSUME acts \in Seq(Act), FitsNow, SameFrames(acts, acts'),
           prompt' = prompt, inner' = inner, thrown'.up => thrown.up \/ ~InLoop(acts)
    PROVE  FitsNow'
<1>1. /\ NoLoop(acts') <=> NoLoop(acts)
      /\ InLoop(acts') <=> InLoop(acts)
      /\ OnTyped(acts') <=> OnTyped(acts)
  BY LoopSame
<1>2. Fits(acts', prompt, inner, thrown'.up)
  BY <1>1 DEF FitsNow, Fits
<1> QED
  BY <1>2 DEF FitsNow

LEMMA FitsPush ==
    ASSUME acts \in Seq(Act), FitsNow, NEW act \in Act, act.kind \notin Loops,
           acts' = Append(acts, act), inner' = inner,
           \/ prompt' = "stale"
           \/ prompt' = prompt /\ prompt # "waits"
           \/ prompt' = "typed" /\ prompt = "waits" /\ act.kind = "line"
    PROVE  FitsNow'
<1>1. /\ NoLoop(acts) => NoLoop(acts')
      /\ OnTyped(acts) => OnTyped(acts')
      /\ InLoop(acts) /\ act.kind = "line" => OnTyped(acts')
  BY LoopPush
<1>2. Fits(acts', prompt', inner, thrown'.up)
  BY <1>1 DEF FitsNow, Fits
<1> QED
  BY <1>2 DEF FitsNow

(* The inner loop asks for a line, or was left.                            *)
LEMMA FitsLoop ==
    ASSUME prompt' = "stale" \/ (prompt' = "waits" /\ InLoop(acts') /\ inner' /\ ~thrown'.up)
    PROVE  FitsNow'
BY DEF FitsNow, Fits

LEMMA FitsPop ==
    ASSUME acts \in Seq(Act), acts # <<>>, FitsNow, Top.kind \in Runs,
           ~(Top.kind = "line" /\ InLoop(Below)),
           acts' \in {Below, Stepped(Below)}, prompt' = prompt, inner' = inner
    PROVE  FitsNow'
<1>1. Top = acts[Len(acts)] /\ Below = Front(acts) /\ Below \in Seq(Act) /\ ~InLoop(acts)
  BY LoopFacts, FrontOf DEF Top, Below
<1>2. Top.kind \notin Loops
  BY DEF Runs, Loops
<1>3. /\ NoLoop(acts) => NoLoop(Below)
      /\ OnTyped(acts) => OnTyped(Below)
  BY <1>1, <1>2, LoopPop
<1>4. SameFrames(Below, acts')
  BY <1>1, SteppedSame DEF SameFrames
<1>5. /\ NoLoop(acts) => NoLoop(acts')
      /\ OnTyped(acts) => OnTyped(acts')
  BY <1>1, <1>3, <1>4, LoopSame
<1>6. Fits(acts', prompt, inner, thrown'.up)
  BY <1>1, <1>5 DEF FitsNow, Fits
<1> QED
  BY <1>6 DEF FitsNow

LEMMA FitsStays ==
    ASSUME BuildInv, FitsNow,
           \/ \E set \in BOOLEAN : OnIoError(set)
           \/ Catch \/ CatchCancel
           \/ \E value \in OnErrors : OnError(value)
           \/ Return \/ Skip \/ Jump \/ LeaveMain
           \/ \E io \in BOOLEAN : Raise(io)
           \/ (Stop \/ Halt) /\ acts' = TopAt("abort") /\ UNCHANGED <<inner, prompt>>
           \/ UNCHANGED vars
    PROVE  FitsNow'
<1>1. DispatchInv /\ acts \in Seq(Act) /\ Len(acts) - 1 \in Int
  BY InvFacts, LenProperties DEF BuildInv
<1>2. inner' = inner /\ prompt' = prompt
  BY DEF OnIoError, Catch, CatchCancel, OnError, Asks, Return, Skip, Jump, LeaveMain, Raise, vars
<1>3. SameFrames(acts, acts')
  <2>1. SameFrames(acts, acts)
    BY <1>1 DEF SameFrames
  <2>2. CASE \/ \E set \in BOOLEAN : OnIoError(set)
             \/ Catch \/ CatchCancel
             \/ \E value \in OnErrors : OnError(value)
    BY <1>1, <2>2, SteppedSame DEF OnIoError, Catch, CatchCancel, OnError, Asks
  <2>3. CASE Return \/ Jump \/ acts' = TopAt("abort")
    BY <1>1, <2>3, PlaceSame DEF Return, Jump, Places
  <2>4. CASE Skip
    BY <1>1, <2>4, PlaceSet DEF Skip, Places
  <2>5. CASE LeaveMain \/ (\E io \in BOOLEAN : Raise(io)) \/ UNCHANGED vars
    BY <2>1, <2>5 DEF LeaveMain, Raise, vars
  <2> QED
    BY <2>2, <2>3, <2>4, <2>5
<1>4. thrown'.up => thrown.up \/ ~InLoop(acts)
  <2>1. CASE \E io \in BOOLEAN : Raise(io)
    BY <2>1, <1>1, LoopFacts DEF Raise, Running, Stands, Top
  <2>2. CASE thrown' = thrown
    BY <2>2
  <2>3. CASE Jump \/ LeaveMain \/ Halt
    BY <2>3 DEF Jump, LeaveMain, Halt, Passed, Caught
  <2> QED
    BY <2>1, <2>2, <2>3 DEF OnIoError, Catch, CatchCancel, OnError, Asks, Return, Skip, Stop, vars
<1> QED
  BY <1>1, <1>2, <1>3, <1>4, FitsSame

LEMMA FitsPushing ==
    ASSUME BuildInv, FitsNow, TypeLine \/ Execute \/ Call \/ Event
    PROVE  FitsNow'
<1>1. /\ acts \in Seq(Act) /\ Len(callStack) \in Nat /\ Len(callStack) + 1 \in Nat
  BY InvFacts DEF BuildInv
<1>2. ~InLoop(acts) => prompt # "waits"
  BY DEF FitsNow, Fits
<1>3. Running => ~InLoop(acts)
  BY <1>1, LoopFacts DEF Running, Stands, Top
<1>4. CASE TypeLine
  <2> DEFINE act == NewAct("line", "line", Len(callStack))
  <2>1. act \in Act /\ act.kind = "line" /\ act.kind \notin Loops
    BY <1>1, ActNew DEF Runs, Loops, Places
  <2>2. acts' = Append(acts, act) /\ inner' = inner
        /\ prompt' = IF prompt = "waits" THEN "typed" ELSE prompt
    BY <1>4 DEF TypeLine
  <2> HIDE DEF act
  <2> QED
    BY <1>1, <2>1, <2>2, FitsPush
<1>5. CASE Execute
  <2> DEFINE act == NewAct("execute", "line", Len(callStack))
  <2>1. act \in Act /\ act.kind \notin Loops
    BY <1>1, ActNew DEF Runs, Loops, Places
  <2>2. acts' = Append(acts, act) /\ inner' = inner /\ prompt' = prompt /\ Running
    BY <1>5 DEF Execute
  <2> HIDE DEF act
  <2> QED
    BY <1>1, <1>2, <1>3, <2>1, <2>2, FitsPush
<1>6. CASE Call \/ Event
  <2>1. PICK kind \in {"call", "event"} : Enters(kind)
    BY <1>6 DEF Call, Event
  <2> DEFINE act == NewAct(kind, "body", Len(callStack) + 1)
  <2>2. act \in Act /\ act.kind \notin Loops
    BY <1>1, ActNew DEF Runs, Loops, Places
  <2>3. acts' = Append(acts, act) /\ inner' = inner
    BY <2>1 DEF Enters
  <2> HIDE DEF act
  <2>4. prompt' = "stale" \/ (prompt' = prompt /\ ~InLoop(acts))
    BY <1>3, <1>6 DEF Call, Event
  <2> QED
    BY <1>1, <1>2, <2>2, <2>3, <2>4, FitsPush
<1> QED
  BY <1>4, <1>5, <1>6

LEMMA FitsOpening ==
    ASSUME BuildInv, FitsNow, Stop \/ Halt
    PROVE  FitsNow'
<1>1. /\ acts \in Seq(Act) /\ Len(callStack) \in Nat
  BY InvFacts DEF BuildInv
<1>2. ASSUME NEW kind \in Loops, Opens(kind), ~thrown'.up
      PROVE  FitsNow'
  <2> DEFINE act == NewAct(kind, "body", Len(callStack))
  <2>1. act \in Act /\ act.kind = kind
    BY <1>1, ActNew DEF Places
  <2>2. acts' = Append(acts, act) /\ inner' = TRUE /\ prompt' = "waits"
    BY <1>2 DEF Opens
  <2> HIDE DEF act
  <2>3. /\ acts' \in Seq(Act) /\ Len(acts') = Len(acts) + 1 /\ acts'[Len(acts')] = act
        /\ Len(acts) \in Nat
    BY <1>1, <2>1, <2>2, PushSeq, LenProperties
  <2>4. acts' # <<>>
    BY <2>3, EmptySeq
  <2>5. InLoop(acts')
    BY <2>1, <2>3, <2>4, LoopFacts
  <2> QED
    BY <1>2, <2>2, <2>5, FitsLoop
<1>3. ~thrown'.up
  BY DEF Stop, Halt, Running, Handled, NoError
<1>4. \/ \E kind \in Loops : Opens(kind)
      \/ acts' = TopAt("abort") /\ UNCHANGED <<inner, prompt>>
  BY DEF Stop, Halt, Loops
<1> QED
  BY <1>2, <1>3, <1>4, FitsStays

LEMMA FitsUnwinding ==
    ASSUME BuildInv, FitsNow, RetAll \/ Reset
    PROVE  FitsNow'
<1>1. /\ acts' = <<>> /\ inner' = inner
      /\ prompt' = IF InnerLoops THEN "stale" ELSE prompt
  BY DEF RetAll, Reset, Unwinds
<1>2. acts \in Seq(Act) /\ DOMAIN acts = 1 .. Len(acts)
  BY InvFacts, LenProperties DEF BuildInv
<1>3. NoLoop(acts) <=> ~InnerLoops
  BY <1>2 DEF NoLoop, InnerLoops
<1>4. NoLoop(acts) => ~InLoop(acts) /\ ~OnTyped(acts)
  <2>1. CASE acts # <<>>
    BY <1>2, <2>1, LoopFacts
  <2>2. CASE acts = <<>>
    BY <1>2, <2>2, EmptySeq DEF InLoop, OnTyped
  <2> QED
    BY <2>1, <2>2
<1>5. NoLoop(acts')
  BY <1>1, EmptySeq DEF NoLoop
<1>6. Fits(acts', prompt', inner, thrown'.up)
  BY <1>1, <1>3, <1>4, <1>5 DEF FitsNow, Fits
<1> QED
  BY <1>1, <1>6 DEF FitsNow

LEMMA FitsIgnoring ==
    ASSUME BuildInv, ErrorTypes, FitsNow, Ignore
    PROVE  FitsNow'
<1>1. /\ thrown.up /\ inner /\ ~inner' /\ acts # <<>> /\ acts' = TopAt("end")
      /\ prompt' = IF ~InnerLoops THEN "none"
                   ELSE IF prompt = "typed" THEN "dropped" ELSE "stale"
  BY DEF Ignore, Caught, FlagAfter
<1>2. acts \in Seq(Act) /\ DOMAIN acts = 1 .. Len(acts) /\ DispatchInv
  BY InvFacts, LenProperties DEF BuildInv
<1>3. NoLoop(acts) <=> ~InnerLoops
  BY <1>2 DEF NoLoop, InnerLoops
<1>4. SameFrames(acts, acts')
  BY <1>1, <1>2, PlaceSame DEF Places
<1>5. (NoLoop(acts') <=> NoLoop(acts)) /\ (OnTyped(acts') <=> OnTyped(acts))
  BY <1>2, <1>4, LoopSame
<1>6. prompt = "typed" => OnTyped(acts)
  BY DEF FitsNow, Fits
<1>7. Fits(acts', prompt', inner', thrown'.up)
  BY <1>1, <1>3, <1>5, <1>6 DEF Fits
<1> QED
  BY <1>7 DEF FitsNow

LEMMA FitsLeaving ==
    ASSUME BuildInv, FitsNow, LeaveCall \/ LeaveExecute \/ LeaveLine \/ Rethrow
    PROVE  FitsNow'
<1>1. /\ acts \in Seq(Act) /\ acts # <<>> /\ Top.kind \in Runs
      /\ Top = Last(acts) /\ Below = Front(acts)
  BY InvFacts DEF BuildInv, LeaveCall, LeaveExecute, LeaveLine, Over, Rethrow, Passed,
      Caught, Top, Below
<1>2. Below \in Seq(Act)
  BY <1>1, FrontOf
<1>3. CASE LeaveCall \/ LeaveExecute
  BY <1>1, <1>3, FitsPop DEF LeaveCall, LeaveExecute
<1>4. CASE LeaveLine /\ InLoop(Below)
  <2>1. CASE Top.at = "return"
    BY <1>4, <2>1, FitsLoop DEF LeaveLine
  <2>2. CASE Top.at # "return"
    BY <1>4, <2>2, FitsLoop DEF LeaveLine, AsksAgain, Over
  <2> QED
    BY <2>1, <2>2
<1>5. CASE LeaveLine /\ ~InLoop(Below)
  BY <1>1, <1>5, FitsPop DEF LeaveLine, AsksAgain
<1>6. CASE Rethrow
  <2>1. Leaves(acts, TargetEnv)
    BY <1>6 DEF Rethrow
  <2>2. CASE Top.kind \in {"call", "event"}
    BY <1>1, <2>1, <2>2, FitsPop DEF Leaves
  <2>3. CASE Top.kind = "execute"
    BY <1>1, <2>1, <2>3, FitsPop DEF Leaves
  <2>4. CASE Top.kind = "line" /\ ~InLoop(Below)
    BY <1>1, <2>1, <2>4, FitsPop DEF Leaves, AsksAgain
  <2>5. CASE Top.kind = "line" /\ InLoop(Below)
    <3>1. /\ acts' = Stepped(Below) /\ inner' = TRUE /\ prompt' = "waits"
          /\ ~thrown'.up
      BY <1>1, <2>1, <2>5 DEF Leaves, AsksAgain, Handled, NoError
    <3>2. InLoop(acts')
      BY <1>2, <2>5, <3>1, SteppedSame, LoopSame
    <3> QED
      BY <3>1, <3>2, FitsLoop
  <2> QED
    BY <1>1, <2>2, <2>3, <2>4, <2>5 DEF Runs
<1> QED
  BY <1>3, <1>4, <1>5, <1>6

(* An error leaves an inner loop only after a call-back came there.        *)
LEMMA FitsLeaveLoop ==
    ASSUME BuildInv, ErrorTypes, FitsNow, LeaveLoop
    PROVE  FitsNow'
<1>1. acts \in Seq(Act) /\ acts # <<>> /\ InLoop(acts) /\ thrown.up /\ Below = Front(acts)
  BY InvFacts DEF BuildInv, LeaveLoop, InLoop, Below
<1>2. Below \in Seq(Act)
  BY <1>1, FrontOf
<1>3. prompt = "stale"
  BY <1>1, LoopFacts DEF FitsNow, Fits, ErrorTypes, Prompts
<1>4. CASE prompt' = prompt
  BY <1>3, <1>4, FitsLoop
<1>5. CASE prompt' # prompt
  <2>1. /\ Leaves(Below, thrown.target) /\ Last(Below).kind = "line"
        /\ InLoop(Front(Below)) /\ prompt' = "waits"
    BY <1>5 DEF LeaveLoop, Leaves, AsksAgain
  <2>2. inner' = TRUE /\ ~thrown'.up /\ acts' = Stepped(Front(Below))
    BY <2>1 DEF Leaves, AsksAgain, Handled, NoError
  <2>3. Below # <<>>
    <3>1. Len(acts) \in Nat \ {0} /\ acts[Len(acts)].kind \in Loops /\ Len(Below) = Len(acts) - 1
      BY <1>1, FrontOf, LoopFacts
    <3>2. Len(acts) # 1
      BY <3>1, InvFacts DEF BuildInv, Sound, Standing
    <3> QED
      BY <3>1, <3>2, EmptySeq
  <2>4. Front(Below) \in Seq(Act)
    BY <1>2, <2>3, FrontOf
  <2>5. InLoop(acts')
    BY <2>1, <2>2, <2>4, SteppedSame, LoopSame
  <2> QED
    BY <2>1, <2>2, <2>5, FitsLoop
<1> QED
  BY <1>4, <1>5

LEMMA FitsNext ==
    ASSUME BuildInv, ErrorTypes, FitsNow, [Next]_vars
    PROVE  FitsNow'
<1>1. CASE Continue
  BY <1>1, FitsLoop DEF Continue
<1> QED
  BY <1>1, FitsStays, FitsPushing, FitsOpening, FitsUnwinding, FitsIgnoring, FitsLeaving,
     FitsLeaveLoop DEF Next, Statement, User, Dispatch

LEMMA FitsInit == Init => FitsNow
<1> SUFFICES ASSUME Init PROVE FitsNow
  OBVIOUS
<1>1. acts = <<>> /\ inner = FALSE /\ prompt = "none"
  BY DEF Init
<1> QED
  BY <1>1, EmptySeq DEF FitsNow, Fits, NoLoop

-----------------------------------------------------------------------------
(* Where the error that is under way has to end                            *)

Known == prompt \in {"none", "dropped"}

StopEnv == IF thrown.target = 0 THEN StopsAt ELSE thrown.target

(* No activation that the error has left was to take it: what was expected *)
(* when it was raised is what one would expect of the stacks that are left. *)
(* Nothing is said of an error that comes after an inner loop was left.     *)
Pending ==
    /\ acts # <<>> /\ Top.kind \in Runs
    /\ prompt = "typed" => expect.at = Len(acts) /\ ~expect.jump
    /\ Known => Uppermost(expect.at, expect.jump, acts, callStack, thrown.io, StopEnv)

ErrorInv ==
    /\ BuildInv /\ ErrorTypes /\ FitsNow
    /\ thrown.up /\ ~leaked => Pending

(* What a step does to the error.                                          *)
Ends ==
    thrown.up /\ ~thrown'.up /\ ~leaked' /\ prompt # "stale" =>
        /\ Len(acts) = expect.at
        /\ (Len(acts') = Len(acts) /\ Last(acts').at = "body") <=> expect.jump

LEMMA LeakedStays ==
    ASSUME ErrorInv, [Next]_vars
    PROVE  ~leaked' => ~leaked
<1>1. CASE \/ \E set \in BOOLEAN : OnIoError(set)
           \/ Catch \/ CatchCancel
           \/ \E value \in OnErrors : OnError(value)
           \/ \E io \in BOOLEAN : (io => "ioerror" \in Ops) /\ Raise(io)
           \/ Call \/ Execute \/ Return \/ Stop
           \/ TypeLine \/ Event \/ Continue \/ Skip
           \/ LeaveCall \/ LeaveExecute \/ LeaveLine
           \/ Ignore \/ Jump \/ Halt \/ LeaveMain \/ UNCHANGED vars
  BY <1>1 DEF OnIoError, Catch, CatchCancel, OnError, Asks, Raise, Call, Enters, Execute,
      Return, Stop, TypeLine, Event, Continue, Skip, LeaveCall, LeaveExecute, LeaveLine,
      Ignore, Jump, Halt, LeaveMain, vars
<1>2. CASE RetAll \/ Reset
  BY <1>2 DEF RetAll, Reset, Unwinds
<1>3. CASE Rethrow \/ LeaveLoop
  BY <1>3 DEF Rethrow, LeaveLoop, Leaves
<1> QED
  BY <1>1, <1>2, <1>3 DEF Next, Statement, User, Dispatch

(* What is known of the inner prompt tells the flag.                       *)
LEMMA KnownPrompt ==
    ASSUME ErrorInv, thrown.up, prompt # "stale"
    PROVE  /\ inner <=> prompt = "typed"
           /\ ~inner <=> Known
BY DEF ErrorInv, ErrorTypes, Prompts, FitsNow, Fits, Known

(* The facts about the top activation while an error is under way.         *)
LEMMA PendingTop ==
    ASSUME ErrorInv, thrown.up, ~leaked
    PROVE  /\ acts \in Seq(Act) /\ acts # <<>> /\ Len(acts) \in Nat \ {0}
           /\ Len(acts) \in 1 .. Len(acts)
           /\ Top = acts[Len(acts)] /\ Top = Last(acts) /\ Below = Front(acts)
           /\ Top.kind \in Runs /\ Top.env = Len(callStack) /\ Back = callStack[Top.env]
           /\ Jumps <=> Takes(Top, callStack, thrown.io)
<1>1. acts # <<>> /\ Top.kind \in Runs
  BY DEF ErrorInv, Pending
<1>2. /\ acts \in Seq(Act) /\ Len(acts) \in Nat \ {0} /\ Len(acts) \in 1 .. Len(acts)
      /\ Top = acts[Len(acts)] /\ Top = Last(acts) /\ Below = Front(acts)
  BY <1>1, InvFacts, FrontOf DEF ErrorInv, BuildInv, Top, Below
<1>3. Matching(acts, Len(callStack))
  BY DEF ErrorInv, BuildInv, DispatchInv, Sound
<1>4. Top.env = Len(callStack)
  BY <1>1, <1>2, <1>3, FrontMatching
<1>5. Back = callStack[Len(callStack)]
  BY StackThere, FrontOf DEF Back, ErrorInv
<1> QED
  BY <1>1, <1>2, <1>4, <1>5 DEF Jumps, Takes

(* An activation that takes the error is the one expected, if all above it *)
(* did not.                                                                *)
LEMMA TopEnds ==
    ASSUME ErrorInv, thrown.up, ~leaked, Known,
           EndsAt(Top, callStack, thrown.io, StopEnv)
    PROVE  expect.at = Len(acts) /\ (expect.jump <=> Jumps)
<1>1. Uppermost(expect.at, expect.jump, acts, callStack, thrown.io, StopEnv)
  BY DEF ErrorInv, Pending
<1>2. /\ Len(acts) \in Nat \ {0} /\ Len(acts) \in 1 .. Len(acts) /\ Top = acts[Len(acts)]
      /\ Jumps <=> Takes(Top, callStack, thrown.io)
  BY PendingTop
<1>3. expect.at = Len(acts)
  BY <1>1, <1>2 DEF Uppermost
<1> QED
  BY <1>1, <1>2, <1>3 DEF Uppermost

LEMMA TakenSteps ==
    ASSUME ErrorInv, Ignore \/ Jump \/ Halt \/ LeaveMain
    PROVE  Ends /\ (~leaked' => ~thrown'.up)
<1>1. thrown.up /\ ~thrown'.up /\ leaked' = leaked
  BY DEF Ignore, Jump, Halt, LeaveMain, Passed, Caught, Handled, NoError
<1>2. CASE leaked \/ prompt = "stale"
  BY <1>1, <1>2 DEF Ends
<1>3. CASE ~leaked /\ prompt # "stale"
  <2>1. /\ acts \in Seq(Act) /\ acts # <<>> /\ Len(acts) \in Nat \ {0}
        /\ Len(acts) \in 1 .. Len(acts) /\ Top = acts[Len(acts)] /\ Top = Last(acts)
        /\ Top.kind \in Runs /\ Top.env = Len(callStack)
        /\ Jumps <=> Takes(Top, callStack, thrown.io)
    BY <1>1, <1>3, PendingTop
  <2>2. ASSUME NEW at \in Places, acts' = TopAt(at)
        PROVE  Len(acts') = Len(acts) /\ Last(acts').at = at
    <3>1. Top \in Act
      BY <2>1, ElementOfSeq
    <3>2. [Top EXCEPT !.at = at] \in Act /\ [Top EXCEPT !.at = at].at = at
      BY <3>1 DEF Act, Places
    <3>3. acts' = [acts EXCEPT ![Len(acts)] = [Top EXCEPT !.at = at]]
      BY <2>1, <2>2 DEF TopAt
    <3>4. Len(acts') = Len(acts) /\ acts'[Len(acts)] = [Top EXCEPT !.at = at]
      BY <2>1, <3>2, <3>3, SetActs
    <3> QED
      BY <3>2, <3>4 DEF Last
  <2>3. CASE Ignore
    <3>1. inner /\ acts' = TopAt("end")
      BY <2>3 DEF Ignore
    <3>2. expect.at = Len(acts) /\ ~expect.jump
      BY <1>1, <1>3, <3>1, KnownPrompt DEF ErrorInv, Pending
    <3>3. Last(acts').at # "body"
      BY <2>2, <3>1 DEF Places
    <3> QED
      BY <1>1, <3>2, <3>3 DEF Ends
  <2>4. CASE Jump
    <3>1. ~inner /\ Jumps /\ acts' = TopAt("body")
      BY <2>4 DEF Jump
    <3>2. EndsAt(Top, callStack, thrown.io, StopEnv)
      BY <2>1, <3>1 DEF EndsAt
    <3>3. expect.at = Len(acts) /\ expect.jump
      BY <1>1, <1>3, <3>1, <3>2, KnownPrompt, TopEnds
    <3>4. Len(acts') = Len(acts) /\ Last(acts').at = "body"
      BY <2>2, <3>1 DEF Places
    <3> QED
      BY <1>1, <3>3, <3>4 DEF Ends
  <2>5. CASE Halt
    <3>1. ~inner /\ ~Jumps /\ Halts
      BY <2>5 DEF Halt, Passed
    <3>2. Top.env = StopEnv
      <4>1. Len(callStack) # 0 /\ BuildInv /\ ErrorTypes
        BY StackThere DEF ErrorInv
      <4> QED
        BY <2>1, <3>1, <4>1, TargetEnvFacts DEF Halts, StopEnv
    <3>3. expect.at = Len(acts) /\ ~expect.jump
      BY <1>1, <1>3, <2>1, <3>1, <3>2, KnownPrompt, TopEnds DEF EndsAt
    <3>4. CASE acts' = TopAt("abort")
      <4>1. Last(acts').at # "body"
        BY <2>2, <3>4 DEF Places
      <4> QED
        BY <1>1, <3>3, <4>1 DEF Ends
    <3>5. CASE Opens("halt")
      <4>1. Len(acts') # Len(acts)
        BY <2>1, <3>5 DEF Opens
      <4> QED
        BY <1>1, <3>3, <4>1 DEF Ends
    <3> QED
      BY <2>5, <3>4, <3>5 DEF Halt
  <2>6. CASE LeaveMain
    BY <2>1, <2>6 DEF LeaveMain
  <2> QED
    BY <2>3, <2>4, <2>5, <2>6, <1>1
<1> QED
  BY <1>2, <1>3

(* The error leaves a routine: the activation below is the next to be      *)
(* asked, and the handlers that are left are the same.                     *)
LEMMA CallLeft ==
    ASSUME ErrorInv, thrown.up, ~leaked, Rethrow, Top.kind = "call"
    PROVE  Pending'
<1> DEFINE n == Len(callStack)
           k == Len(acts) - 1
           t == StopEnv
<1>1. /\ acts \in Seq(Act) /\ Len(acts) \in 1 .. Len(acts) /\ Len(acts) \in Nat \ {0}
      /\ acts # <<>> /\ Top = acts[Len(acts)] /\ Top = Last(acts) /\ Below = Front(acts)
      /\ Top.env = n /\ (Jumps <=> Takes(Top, callStack, thrown.io))
  BY PendingTop
<1>2. ~inner /\ ~Jumps /\ ~Halts /\ Leaves(acts, TargetEnv)
  BY DEF Rethrow, Passed
<1>3. /\ callStack' = Cut(callStack, n - 1) /\ acts' = Front(acts)
      /\ thrown' = [thrown EXCEPT !.target = TargetEnv]
      /\ inner' = inner /\ expect' = expect /\ prompt' = prompt
  BY <1>1, <1>2 DEF Leaves, Guarded
<1>4. /\ callStack \in Seq(Env) /\ n \in Nat \ {0} /\ thrown \in ThrownTypes
      /\ BuildInv /\ ErrorTypes
  BY StackThere DEF ErrorInv, ErrorTypes
<1>5. TargetEnv # 0 /\ TargetEnv # n /\ TargetEnv = t
  BY <1>2, <1>4, TargetEnvFacts DEF Halts, StopEnv
<1>6. thrown'.target = t /\ thrown'.io = thrown.io /\ StopEnv' = t
  <2>1. thrown'.target = TargetEnv /\ thrown'.io = thrown.io
    BY <1>3, <1>4 DEF ThrownTypes
  <2>2. StopEnv' = thrown'.target
    BY <1>5, <2>1 DEF StopEnv
  <2> QED
    BY <1>5, <2>1, <2>2
<1> HIDE DEF t
<1>7. /\ acts' \in Seq(Act) /\ Len(acts') = k /\ k \in Nat
      /\ \A i \in 1 .. k : acts'[i] = acts[i]
  BY <1>1, <1>3, FrontOf
<1>8. \A i \in 1 .. n - 1 : callStack'[i] = callStack[i]
  <2>1. n > n - 1 /\ n - 1 \in 0 .. n
    BY <1>4
  <2>2. callStack' = SubSeq(callStack, 1, n - 1)
    BY <1>3, <2>1 DEF Cut
  <2> QED
    BY <1>4, <2>1, <2>2, CutSeq
<1>9. \A i \in 1 .. k : acts[i].env \in 1 .. n - 1
  <2> SUFFICES ASSUME NEW i \in 1 .. k PROVE acts[i].env \in 1 .. n - 1
    OBVIOUS
  <2>1. i \in 1 .. Len(acts) /\ i \in 1 .. Len(acts) - 1 /\ Own(acts[Len(acts)])
    BY <1>1, <1>7 DEF Own
  <2>2. Standing(acts, n)
    BY <1>4, InvFacts DEF BuildInv, Sound
  <2>3. acts[i].env \in 1 .. n /\ acts[i].env < acts[Len(acts)].env
    BY <1>1, <2>1, <2>2 DEF Standing
  <2> QED
    BY <1>1, <1>4, <2>3
<1>10. \A i \in 1 .. k : /\ Takes(acts'[i], callStack', thrown'.io)
                                <=> Takes(acts[i], callStack, thrown.io)
                         /\ EndsAt(acts'[i], callStack', thrown'.io, t)
                                <=> EndsAt(acts[i], callStack, thrown.io, t)
  <2> TAKE i \in 1 .. k
  <2>1. acts'[i] = acts[i] /\ acts[i].env \in 1 .. n - 1
    BY <1>7, <1>9
  <2>2. callStack'[acts[i].env] = callStack[acts[i].env]
    BY <1>8, <2>1
  <2>3. Takes(acts'[i], callStack', thrown'.io) <=> Takes(acts[i], callStack, thrown.io)
    BY <1>6, <2>1, <2>2 DEF Takes
  <2> QED
    BY <2>1, <2>3 DEF EndsAt
<1>11. ~EndsAt(Top, callStack, thrown.io, t)
  BY <1>1, <1>2, <1>5 DEF EndsAt
<1>12. ASSUME Known
       PROVE  Uppermost(expect.at, expect.jump, acts', callStack', thrown'.io, t)
  <2>1. Uppermost(expect.at, expect.jump, acts, callStack, thrown.io, t)
    BY <1>12 DEF ErrorInv, Pending, t
  <2>2. expect.at \in 0 .. k
    <3>1. expect.at \in 0 .. Len(acts) /\ (expect.at # 0 => EndsAt(acts[expect.at], callStack, thrown.io, t))
      BY <2>1 DEF Uppermost
    <3>2. expect.at # Len(acts)
      BY <1>1, <1>11, <3>1
    <3> QED
      BY <1>1, <3>1, <3>2
  <2>3. \A i \in 1 .. k : i \in 1 .. Len(acts)
    BY <1>1
  <2>4. \A i \in 1 .. Len(acts') : i > expect.at => ~EndsAt(acts'[i], callStack', thrown'.io, t)
    BY <2>1, <2>3, <1>7, <1>10 DEF Uppermost
  <2>5. expect.at # 0 => expect.at \in 1 .. k
    BY <2>2, <1>7
  <2> HIDE DEF k
  <2> QED
    BY <2>1, <2>2, <2>4, <2>5, <1>7, <1>10 DEF Uppermost
<1>13. prompt # "typed"
  BY <1>2 DEF ErrorInv, FitsNow, Fits
<1>14. acts' # <<>> /\ Top'.kind \in Runs
  <2>1. Len(acts) # 1 /\ acts[Len(acts) - 1].kind \in Runs
    BY <1>1, <1>4 DEF BuildInv, OnRuns
  <2>2. k \in 1 .. k
    <3>1. k # 0
      BY <1>1, <2>1
    <3> HIDE DEF k
    <3> QED
      BY <3>1, <1>7
  <2>3. acts' # <<>>
    BY <1>7, <2>2, EmptySeq
  <2>4. Top' = acts'[k]
    BY <1>7, <2>3 DEF Top, Last
  <2> QED
    BY <2>1, <2>2, <2>3, <2>4, <1>7
<1> QED
  BY <1>2, <1>3, <1>6, <1>12, <1>13, <1>14 DEF Pending, Known

LEMMA LeavingErrors ==
    ASSUME ErrorInv, Rethrow \/ LeaveLoop
    PROVE  Ends /\ (thrown'.up /\ ~leaked' => Pending')
<1>1. thrown.up /\ (~leaked' => ~leaked)
  <2>1. [Next]_vars
    BY DEF Next, Dispatch
  <2> QED
    BY <2>1, LeakedStays DEF Rethrow, LeaveLoop, Passed, Caught
<1>2. CASE leaked
  BY <1>1, <1>2 DEF Ends
<1>3. CASE ~leaked
  <2>1. /\ acts \in Seq(Act) /\ acts # <<>> /\ Len(acts) \in Nat \ {0}
        /\ Top = Last(acts) /\ Top.kind \in Runs
        /\ Jumps <=> Takes(Top, callStack, thrown.io)
    BY <1>1, <1>3, PendingTop
  <2>2. Rethrow
    BY <2>1 DEF LeaveLoop, InLoop, Loops, Runs
  <2>3. ~inner /\ ~Jumps /\ Leaves(acts, TargetEnv)
    BY <2>2 DEF Rethrow, Passed
  <2>4. CASE Top.kind = "event"
    <3>1. leaked'
      BY <2>1, <2>3, <2>4 DEF Leaves
    <3> QED
      BY <3>1 DEF Ends
  <2>5. CASE Top.kind = "call"
    <3>1. Pending'
      BY <1>1, <1>3, <2>2, <2>5, CallLeft
    <3>2. thrown' = [thrown EXCEPT !.target = TargetEnv]
      BY <2>1, <2>3, <2>5 DEF Leaves
    <3>3. thrown'.up
      BY <1>1, <3>2 DEF ErrorInv, ErrorTypes, ThrownTypes
    <3> QED
      BY <3>1, <3>3 DEF Ends
  <2>6. CASE Top.kind \in {"line", "execute"}
    <3>1. Handled /\ acts' = Stepped(Front(acts))
      BY <2>1, <2>3, <2>6 DEF Leaves
    <3>2. ~thrown'.up
      BY <3>1 DEF Handled, NoError
    <3>3. EndsAt(Top, callStack, thrown.io, StopEnv)
      BY <2>1, <2>6 DEF EndsAt
    <3>4. prompt # "stale" => expect.at = Len(acts) /\ ~expect.jump
      BY <1>1, <1>3, <2>3, <3>3, KnownPrompt, TopEnds
    <3>5. Len(acts') # Len(acts)
      <4>1. Front(acts) \in Seq(Act) /\ Len(Front(acts)) = Len(acts) - 1
        BY <2>1, FrontOf
      <4>2. Len(acts') = Len(acts) - 1
        BY <3>1, <4>1, SteppedSame DEF SameFrames
      <4> QED
        BY <2>1, <4>2
    <3> QED
      BY <3>2, <3>4, <3>5 DEF Ends
  <2> QED
    BY <2>1, <2>4, <2>5, <2>6 DEF Runs
<1> QED
  BY <1>2, <1>3

LEMMA RaisePending ==
    ASSUME ErrorInv, NEW io \in BOOLEAN, Raise(io)
    PROVE  Ends /\ Pending'
<1>1. /\ ~thrown.up /\ acts # <<>> /\ Top.kind \in Runs /\ BuildInv /\ prompt' = prompt
      /\ acts' = acts /\ callStack' = callStack /\ expect' = Rules(io)
      /\ thrown' = [up |-> TRUE, io |-> io, target |-> 0, lined |-> Len(acts) > 1]
  BY DEF Raise, Running, Stands, ErrorInv, ErrorTypes
<1>2. thrown'.io = io /\ thrown'.target = 0
  BY <1>1
<1>3. StopsAt' = StopsAt
  BY <1>1 DEF StopsAt
<1>4. StopEnv' = StopsAt
  BY <1>2, <1>3 DEF StopEnv
<1>5. /\ prompt = "typed" => Rules(io).at = Len(acts) /\ ~Rules(io).jump
      /\ prompt # "typed" => Uppermost(Rules(io).at, Rules(io).jump, acts, callStack, io, StopsAt)
  BY <1>1, RulesFacts
<1>6. Top' = Top
  BY <1>1 DEF Top
<1>7. Pending'
  BY <1>1, <1>2, <1>4, <1>5, <1>6 DEF Pending, Known
<1> QED
  BY <1>1, <1>7 DEF Ends

(* Nothing else happens while an error is under way.                       *)
LEMMA QuietError ==
    ASSUME ErrorInv,
           \/ \E set \in BOOLEAN : OnIoError(set)
           \/ Catch \/ CatchCancel
           \/ \E value \in OnErrors : OnError(value)
           \/ Call \/ Execute \/ Return \/ Stop \/ RetAll
           \/ TypeLine \/ Event \/ Continue \/ Skip \/ Reset
           \/ LeaveCall \/ LeaveExecute \/ LeaveLine
    PROVE  ~thrown.up /\ thrown' = thrown
BY DEF OnIoError, Catch, CatchCancel, OnError, Asks, Call, Enters, Execute, Return, Stop,
       RetAll, Unwinds, TypeLine, Event, Continue, Skip, Reset, LeaveCall, LeaveExecute,
       LeaveLine, Over, Running, AtPrompt

LEMMA ErrorNext ==
    ASSUME ErrorInv, [Next]_vars
    PROVE  ErrorInv' /\ [Ends]_vars
<1>1. BuildInv' /\ ErrorTypes' /\ FitsNow'
  BY BuildNext, ErrorTypesNext, FitsNext DEF ErrorInv
<1>2. CASE \/ \E set \in BOOLEAN : OnIoError(set)
           \/ Catch \/ CatchCancel
           \/ \E value \in OnErrors : OnError(value)
           \/ Call \/ Execute \/ Return \/ Stop \/ RetAll
           \/ TypeLine \/ Event \/ Continue \/ Skip \/ Reset
           \/ LeaveCall \/ LeaveExecute \/ LeaveLine
  BY <1>1, <1>2, QuietError DEF ErrorInv, Ends
<1>3. CASE \E io \in BOOLEAN : (io => "ioerror" \in Ops) /\ Raise(io)
  BY <1>1, <1>3, RaisePending DEF ErrorInv
<1>4. CASE Ignore \/ Jump \/ Halt \/ LeaveMain
  BY <1>1, <1>4, TakenSteps DEF ErrorInv
<1>5. CASE Rethrow \/ LeaveLoop
  BY <1>1, <1>5, LeavingErrors DEF ErrorInv
<1>6. CASE UNCHANGED vars
  <2>1. ErrorInv'
    <3>1. /\ UNCHANGED <<callStack, acts, inner, thrown, expect, leaked, prompt>>
      BY <1>6 DEF vars
    <3>2. StopsAt' = StopsAt
      BY <3>1 DEF StopsAt
    <3>3. StopEnv' = StopEnv /\ Top' = Top
      BY <3>1, <3>2 DEF StopEnv, Top
    <3> QED
      BY <1>1, <3>1, <3>3 DEF ErrorInv, Pending, Known
  <2> QED
    BY <1>6, <2>1
<1> QED
  BY <1>2, <1>3, <1>4, <1>5, <1>6 DEF Next, Statement, User, Dispatch

LEMMA ErrorInit == Init => ErrorInv
<1> SUFFICES ASSUME Init PROVE ErrorInv
  OBVIOUS
<1>1. ~thrown.up
  BY DEF Init, NoError
<1> QED
  BY <1>1, TypesInit, FitsInit DEF ErrorInv

(* An error ends in the activation the rules named when it was raised,     *)
(* through any number of routines it leaves, and by a jump to a handler    *)
(* exactly if that activation has one: GDLInterpreter::statement, asked    *)
(* anew in every activation, finds the handler that ON_IOERROR, CATCH and  *)
(* ON_ERROR established.  As in HandledByRules: while no inner loop was    *)
(* left since the last inner prompt, and no call-back's environment was    *)
(* left behind.  Whether a line typed at an inner prompt raised the error  *)
(* is told by the steps of the user, not by inInnerInterpreterLoop; that   *)
(* both agree is what FitsNext adds.                                       *)
THEOREM ErrorsFollowRules == Spec => HandledByRules
<1>1. ErrorInv /\ [Next]_vars =>
        [thrown.up /\ ~thrown'.up /\ ~leaked' /\ prompt # "stale" =>
            /\ Len(acts) = expect.at
            /\ (Len(acts') = Len(acts) /\ Last(acts').at = "body") <=> expect.jump]_vars
  BY ErrorNext DEF Ends
<1>2. ErrorInv /\ [Next]_vars => ErrorInv'
  BY ErrorNext
<1>3. Init => ErrorInv
  BY ErrorInit
<1> QED
  BY <1>1, <1>2, <1>3, PTL DEF Spec, HandledByRules

=============================================================================
