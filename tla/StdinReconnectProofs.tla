------------------------ MODULE StdinReconnectProofs -------------------------
(***************************************************************************)
(* Proofs about the terminal client, for any number of keys, lost          *)
(* connections and fast retries and any ring: what arrives is in order,    *)
(* and no key is in two places or in none.                                 *)
(***************************************************************************)
EXTENDS StdinReconnect, SequenceTheorems, TLAPS

-----------------------------------------------------------------------------
(* Sequences of keys.                                                      *)

Rising(s) == \A i, j \in DOMAIN s: i < j => s[i] < s[j]

LEMMA FewKeys ==
    /\ KeysOf(<<>>) = {} /\ Rising(<<>>)
    /\ \A k: KeysOf(<<k>>) = {k} /\ Rising(<<k>>)
BY DEF KeysOf, Rising

LEMMA KeysOfAppend ==
    ASSUME NEW s \in Seq(Keys), NEW k \in Keys
    PROVE  /\ Append(s, k) \in Seq(Keys) /\ KeysOf(Append(s, k)) = KeysOf(s) \cup {k}
           /\ Rising(s) /\ (\A j \in KeysOf(s): j < k) => Rising(Append(s, k))
<1> DEFINE t == Append(s, k)
<1>1. /\ t \in Seq(Keys) /\ Len(t) = Len(s) + 1 /\ Len(s) \in Nat /\ t[Len(s) + 1] = k
      /\ \A i \in 1..Len(s): t[i] = s[i]
  OBVIOUS
<1>2. DOMAIN s = 1..Len(s) /\ DOMAIN t = 1..(Len(s) + 1)
  BY <1>1
<1> HIDE DEF t
<1>3. KeysOf(t) = KeysOf(s) \cup {k}
  BY <1>1, <1>2 DEF KeysOf
<1>4. ASSUME Rising(s), \A j \in KeysOf(s): j < k PROVE Rising(t)
  <2>1. \A i \in 1..Len(s): s[i] < k
    BY <1>2, <1>4 DEF KeysOf
  <2>2. ASSUME NEW i \in 1..(Len(s) + 1), NEW j \in 1..(Len(s) + 1), i < j PROVE t[i] < t[j]
    <3>1. i \in 1..Len(s)
      BY <1>1, <2>2
    <3>2. CASE j = Len(s) + 1
      BY <1>1, <2>1, <3>1, <3>2
    <3>3. CASE j \in 1..Len(s)
      BY <1>1, <1>2, <1>4, <2>2, <3>1, <3>3 DEF Rising
    <3> QED
      BY <1>1, <3>2, <3>3
  <2> QED
    BY <1>2, <2>2 DEF Rising
<1> QED
  BY <1>1, <1>3, <1>4 DEF t

LEMMA KeysOfConcat ==
    ASSUME NEW s \in Seq(Keys), NEW t \in Seq(Keys)
    PROVE  /\ s \o t \in Seq(Keys) /\ KeysOf(s \o t) = KeysOf(s) \cup KeysOf(t)
           /\ Rising(s) /\ Rising(t) /\ (\A i \in KeysOf(s), j \in KeysOf(t): i < j) => Rising(s \o t)
<1> DEFINE u == s \o t
<1>1. /\ u \in Seq(Keys) /\ Len(s) \in Nat /\ Len(t) \in Nat /\ Len(u) = Len(s) + Len(t)
      /\ \A i \in 1..Len(s): u[i] = s[i]
      /\ \A i \in 1..Len(t): u[Len(s) + i] = t[i]
  OBVIOUS
<1>2. DOMAIN s = 1..Len(s) /\ DOMAIN t = 1..Len(t) /\ DOMAIN u = 1..(Len(s) + Len(t))
  BY <1>1
<1> HIDE DEF u
<1>3. \A i \in (Len(s) + 1)..(Len(s) + Len(t)): i - Len(s) \in 1..Len(t) /\ u[i] = t[i - Len(s)]
  <2>1. ASSUME NEW i \in (Len(s) + 1)..(Len(s) + Len(t))
        PROVE  i - Len(s) \in 1..Len(t) /\ u[i] = t[i - Len(s)]
    <3>1. i - Len(s) \in 1..Len(t) /\ Len(s) + (i - Len(s)) = i
      BY <1>1
    <3> QED
      BY <1>1, <3>1
  <2> QED
    BY <2>1
<1>4. \A i \in 1..(Len(s) + Len(t)): i \in 1..Len(s) \/ i \in (Len(s) + 1)..(Len(s) + Len(t))
  BY <1>1
<1>5. KeysOf(u) = KeysOf(s) \cup KeysOf(t)
  <2>1. \A i \in 1..Len(s): i \in 1..(Len(s) + Len(t))
    BY <1>1
  <2>2. \A i \in 1..Len(t): Len(s) + i \in 1..(Len(s) + Len(t))
    BY <1>1
  <2>3. KeysOf(u) \subseteq KeysOf(s) \cup KeysOf(t)
    BY <1>1, <1>2, <1>3, <1>4 DEF KeysOf
  <2>4. KeysOf(s) \subseteq KeysOf(u)
    BY <1>1, <1>2, <2>1 DEF KeysOf
  <2>5. KeysOf(t) \subseteq KeysOf(u)
    BY <1>1, <1>2, <2>2 DEF KeysOf
  <2> QED
    BY <2>3, <2>4, <2>5
<1>6. ASSUME Rising(s), Rising(t), \A i \in KeysOf(s), j \in KeysOf(t): i < j PROVE Rising(u)
  <2>1. \A i \in 1..Len(s), j \in 1..Len(t): s[i] < t[j]
    BY <1>2, <1>6 DEF KeysOf
  <2>2. ASSUME NEW i \in 1..(Len(s) + Len(t)), NEW j \in 1..(Len(s) + Len(t)), i < j PROVE u[i] < u[j]
    <3>1. CASE i \in 1..Len(s) /\ j \in 1..Len(s)
      BY <1>1, <1>2, <1>6, <2>2, <3>1 DEF Rising
    <3>2. CASE i \in 1..Len(s) /\ j \in (Len(s) + 1)..(Len(s) + Len(t))
      BY <1>1, <1>3, <2>1, <3>2
    <3>3. CASE i \in (Len(s) + 1)..(Len(s) + Len(t)) /\ j \in (Len(s) + 1)..(Len(s) + Len(t))
      <4>1. i - Len(s) < j - Len(s)
        BY <1>1, <2>2
      <4> QED
        BY <1>2, <1>3, <1>6, <3>3, <4>1 DEF Rising
    <3>4. ~(i \in (Len(s) + 1)..(Len(s) + Len(t)) /\ j \in 1..Len(s))
      BY <1>1, <2>2
    <3> QED
      BY <1>4, <3>1, <3>2, <3>3, <3>4
  <2> QED
    BY <1>2, <2>2 DEF Rising
<1> QED
  BY <1>1, <1>5, <1>6 DEF u

\* The oldest d keys, and the rest.
LEMMA KeysOfParts ==
    ASSUME NEW s \in Seq(Keys), NEW d \in 0..Len(s), Rising(s)
    PROVE  LET old == SubSeq(s, 1, d)
               new == SubSeq(s, d + 1, Len(s))
           IN  /\ new \in Seq(Keys) /\ Len(new) = Len(s) - d /\ Rising(new)
               /\ KeysOf(s) = KeysOf(old) \cup KeysOf(new) /\ KeysOf(old) \cap KeysOf(new) = {}
<1> DEFINE old == SubSeq(s, 1, d)
           new == SubSeq(s, d + 1, Len(s))
<1>1. /\ Len(s) \in Nat /\ d \in Nat /\ d <= Len(s) /\ DOMAIN s = 1..Len(s)
      /\ \A i \in 1..Len(s): s[i] \in Keys
  OBVIOUS
<1>2. old \in Seq(Keys) /\ Len(old) = d /\ \A i \in 1..d: old[i] = s[i]
  BY <1>1
<1>3. /\ new \in Seq(Keys) /\ Len(new) = Len(s) - d
      /\ \A i \in 1..(Len(s) - d): new[i] = s[i + d]
  <2>1. d + 1 \in Int /\ Len(s) \in Int /\ \A i \in (d + 1)..Len(s): s[i] \in Keys
    BY <1>1
  <2>2. /\ new \in Seq(Keys) /\ Len(new) = IF d + 1 <= Len(s) THEN Len(s) - (d + 1) + 1 ELSE 0
        /\ \A i \in 1..(Len(s) - (d + 1) + 1): new[i] = s[(d + 1) + i - 1]
    BY <2>1, SubSeqProperties
  <2> HIDE DEF new
  <2>3. Len(new) = Len(s) - d
    <3>1. CASE d + 1 <= Len(s)
      <4>1. Len(new) = Len(s) - (d + 1) + 1
        BY <2>2, <3>1
      <4> QED
        BY <1>1, <4>1
    <3>2. CASE ~(d + 1 <= Len(s))
      <4>1. Len(new) = 0
        BY <2>2, <3>2
      <4>2. d = Len(s)
        <5>1. \A m, n \in Nat: m <= n /\ ~(m + 1 <= n) => m = n
          OBVIOUS
        <5> QED
          BY <1>1, <3>2, <5>1
      <4>3. Len(s) - d = 0
        BY <1>1, <4>2
      <4> QED
        BY <4>1, <4>3
    <3> QED
      BY <3>1, <3>2
  <2>4. \A i \in 1..(Len(s) - d): i \in 1..(Len(s) - (d + 1) + 1) /\ (d + 1) + i - 1 = i + d
    BY <1>1
  <2> QED
    BY <2>2, <2>3, <2>4
<1>4. DOMAIN old = 1..d /\ DOMAIN new = 1..(Len(s) - d)
  BY <1>2, <1>3
<1> HIDE DEF old, new
<1>5. \A i \in (d + 1)..Len(s): i - d \in 1..(Len(s) - d) /\ new[i - d] = s[i]
  <2>1. ASSUME NEW i \in (d + 1)..Len(s) PROVE i - d \in 1..(Len(s) - d) /\ new[i - d] = s[i]
    <3>1. i - d \in 1..(Len(s) - d) /\ (i - d) + d = i
      BY <1>1
    <3> QED
      BY <1>3, <3>1
  <2> QED
    BY <2>1
<1>6. \A i \in 1..(Len(s) - d): i + d \in 1..Len(s) /\ i + d > d
  BY <1>1
<1>7. Rising(new)
  <2>1. \A i, j \in 1..Len(s): i < j => s[i] < s[j]
    BY <1>1 DEF Rising
  <2>2. ASSUME NEW i \in 1..(Len(s) - d), NEW j \in 1..(Len(s) - d), i < j PROVE new[i] < new[j]
    <3>1. i + d \in 1..Len(s) /\ j + d \in 1..Len(s) /\ i + d < j + d
      BY <1>1, <2>2
    <3> QED
      BY <1>3, <2>1, <3>1
  <2> QED
    BY <1>4, <2>2 DEF Rising
<1>8. KeysOf(s) \subseteq KeysOf(old) \cup KeysOf(new)
  <2>1. \A i \in 1..Len(s): i \in 1..d \/ i \in (d + 1)..Len(s)
    BY <1>1
  <2> QED
    BY <1>1, <1>2, <1>4, <1>5, <2>1 DEF KeysOf
<1>9. KeysOf(old) \cup KeysOf(new) \subseteq KeysOf(s)
  <2>1. \A i \in 1..d: i \in 1..Len(s)
    BY <1>1
  <2>2. KeysOf(old) \subseteq KeysOf(s)
    BY <1>1, <1>2, <1>4, <2>1 DEF KeysOf
  <2>3. KeysOf(new) \subseteq KeysOf(s)
    BY <1>1, <1>3, <1>4, <1>6 DEF KeysOf
  <2> QED
    BY <2>2, <2>3
<1>10. KeysOf(old) \cap KeysOf(new) = {}
  <2>1. ASSUME NEW i \in 1..d, NEW j \in 1..(Len(s) - d) PROVE old[i] # new[j]
    <3>1. i \in 1..Len(s) /\ j + d \in 1..Len(s) /\ i < j + d
      BY <1>1
    <3>2. s[i] < s[j + d] /\ s[i] \in Int /\ s[j + d] \in Int
      BY <1>1, <3>1 DEF Rising, Keys
    <3> QED
      BY <1>2, <1>3, <3>2
  <2> QED
    BY <1>4, <2>1 DEF KeysOf
<1> QED
  BY <1>3, <1>7, <1>8, <1>9, <1>10 DEF old, new

-----------------------------------------------------------------------------
(* Control: every session but the first needs a lost connection.           *)

Back    == {"ended", "wait", "dial"}
Dialled == {"flushecho", "flushring", "flush", "connect"}

Turns ==
    /\ state \in {"connected", "reconnecting", "gaveup"}
    /\ main \in Places /\ run \in {"read", "load", "lock", "write", "ring", "echo"}
    /\ fast \in Nat /\ fast <= FastLimit + 1 /\ (main # "exit" => fast <= FastLimit)

Flags == net \in BOOLEAN /\ alive \in BOOLEAN /\ trigger \in BOOLEAN

Counted ==
    /\ gen \in Nat /\ drops \in 0..MaxDrops
    /\ main \in {"start", "attached", "exit"} => gen <= drops
    /\ main \in {"start", "attached"} /\ ~alive => gen + 1 <= drops
    /\ main \in Back => ~alive /\ gen + 1 <= drops
    /\ main \in Dialled => gen + 1 <= drops /\ (~alive => gen + 2 <= drops)

Control == Turns /\ Flags /\ Counted

LEMMA ControlStarts == Init => Control
<1> SUFFICES ASSUME Init PROVE Control
  OBVIOUS
<1>1. Turns
  BY StdinAssumption DEF Init, Turns, Places
<1>2. Flags
  BY DEF Init, Flags
<1>3. Counted
  BY StdinAssumption DEF Init, Counted, Back, Dialled
<1> QED
  BY <1>1, <1>2, <1>3 DEF Control

LEMMA TurnsKept ==
    ASSUME Turns, [Next]_vars
    PROVE  Turns'
<1> USE StdinAssumption DEF Turns, Places, env, keys
<1>1. CASE ReadKey \/ Buffer
  BY <1>1 DEF ReadKey, Buffer, LoadState, LockEcho, DirectWrite, BufferKey, EchoKey
<1>2. CASE Attach \/ RemoteExits
  BY <1>2 DEF Attach, StartSession, StartFails, SessionEnds, RemoteExits
<1>3. CASE EnterReconnecting \/ TimerFires
  BY <1>3 DEF EnterReconnecting, TimerFires
<1>4. CASE FastRetry
  <2>1. fast' \in Nat /\ fast' <= fast + 1 /\ fast <= FastLimit
    BY <1>4 DEF FastRetry
  <2> QED
    BY <1>4, <2>1 DEF FastRetry
<1>5. CASE Dial \/ Flush
  BY <1>5 DEF Dial, Flush, FlushLockEcho, FlushLockRing, FlushNothing, FlushRing
<1>6. CASE Connected
  BY <1>6 DEF Connected
<1>7. CASE \E g \in Sessions: Copy(g)
  BY <1>7 DEF Copy, Forward, Swallow
<1>8. CASE ConnectionLost \/ NetworkBack \/ UNCHANGED vars
  BY <1>8 DEF ConnectionLost, NetworkBack, vars
<1> QED
  BY <1>1, <1>2, <1>3, <1>4, <1>5, <1>6, <1>7, <1>8 DEF Next, Reconnect

LEMMA FlagsKept ==
    ASSUME Flags, [Next]_vars
    PROVE  Flags'
<1> USE DEF Flags, env, keys
<1>1. CASE ReadKey \/ Buffer
  BY <1>1 DEF ReadKey, Buffer, LoadState, LockEcho, DirectWrite, BufferKey, EchoKey
<1>2. CASE Attach \/ RemoteExits
  BY <1>2 DEF Attach, StartSession, StartFails, SessionEnds, RemoteExits
<1>3. CASE EnterReconnecting \/ TimerFires \/ FastRetry
  BY <1>3 DEF EnterReconnecting, TimerFires, FastRetry
<1>4. CASE Dial \/ Flush \/ Connected
  BY <1>4 DEF Dial, Flush, FlushLockEcho, FlushLockRing, FlushNothing, FlushRing, Connected
<1>5. CASE \E g \in Sessions: Copy(g)
  BY <1>5 DEF Copy, Forward, Swallow
<1>6. CASE ConnectionLost \/ NetworkBack \/ UNCHANGED vars
  BY <1>6 DEF ConnectionLost, NetworkBack, vars
<1> QED
  BY <1>1, <1>2, <1>3, <1>4, <1>5, <1>6 DEF Next, Reconnect

LEMMA CountedKept ==
    ASSUME Counted, [Next]_vars
    PROVE  Counted'
<1> USE StdinAssumption DEF Counted, Back, Dialled, env, keys
<1>1. CASE ReadKey \/ Buffer
  <2>1. UNCHANGED <<gen, drops, main, alive>>
    BY <1>1 DEF ReadKey, Buffer, LoadState, LockEcho, DirectWrite, BufferKey, EchoKey
  <2> QED
    BY <2>1
<1>2. CASE Attach \/ RemoteExits
  BY <1>2 DEF Attach, StartSession, StartFails, SessionEnds, RemoteExits
<1>3. CASE EnterReconnecting \/ TimerFires \/ FastRetry
  BY <1>3 DEF EnterReconnecting, TimerFires, FastRetry
<1>4. CASE Dial \/ Flush
  <2>1. CASE Dial
    <3>1. main = "dial" /\ gen' = gen /\ drops' = drops
      BY <2>1 DEF Dial
    <3>2. CASE alive' = TRUE /\ main' = "flushecho"
      BY <3>1, <3>2
    <3>3. CASE alive' = alive /\ main' = "wait"
      BY <3>1, <3>3
    <3> QED
      BY <2>1, <3>2, <3>3 DEF Dial
  <2>2. CASE Flush
    BY <2>2 DEF Flush, FlushLockEcho, FlushLockRing, FlushNothing, FlushRing
  <2> QED
    BY <1>4, <2>1, <2>2
<1>5. CASE Connected
  <2>1. gen' = gen + 1 /\ drops' = drops /\ alive' = alive /\ main' = "start"
    BY <1>5 DEF Connected
  <2>2. gen + 1 <= drops /\ (~alive => gen + 2 <= drops)
    BY <1>5 DEF Connected
  <2> QED
    BY <2>1, <2>2
<1>6. CASE \E g \in Sessions: Copy(g)
  BY <1>6 DEF Copy, Forward, Swallow
<1>7. CASE ConnectionLost
  <2>1. alive /\ alive' = FALSE /\ drops' = drops + 1 /\ drops' \in 0..MaxDrops /\ gen' = gen /\ main' = main
    BY <1>7 DEF ConnectionLost
  <2> QED
    BY <2>1
<1>8. CASE NetworkBack \/ UNCHANGED vars
  BY <1>8 DEF NetworkBack, vars
<1> QED
  BY <1>1, <1>2, <1>3, <1>4, <1>5, <1>6, <1>7, <1>8 DEF Next, Reconnect

LEMMA ControlKept ==
    ASSUME Control, [Next]_vars
    PROVE  Control'
BY TurnsKept, FlagsKept, CountedKept DEF Control

-----------------------------------------------------------------------------
(* The places of the keys.                                                 *)

Copiers == [pc: {"none", "reading", "holding", "gone"}, chunk: Seq(Keys)]
Endings == {"open", "buffered", "ignored", "overflow", "received", "wire", "swallowed", "cut"}

Shapes ==
    /\ typed \in 0..MaxKeys /\ copier \in [Sessions -> Copiers] /\ fate \in [Keys -> Endings]
    /\ ring \in Seq(Keys) /\ Len(ring) <= Capacity /\ out \in Seq(Keys)
    /\ (hand = 0) <=> (run \in {"read", "echo"})
    /\ hand # 0 => hand = typed

\* The last key Run has passed on, and what passed on is in one place at most.
Passed == IF hand = 0 THEN typed ELSE typed - 1

InPlace ==
    /\ \A k \in KeysOf(ring) \cup KeysOf(out): k <= Passed
    /\ \A g \in Sessions: \A k \in KeysOf(copier[g].chunk): k <= Passed /\ k \notin KeysOf(ring)
    /\ \A g, h \in Sessions: g # h => KeysOf(copier[g].chunk) \cap KeysOf(copier[h].chunk) = {}

\* Only a copier that holds keys has some, and the new session's is new.
Reading ==
    /\ \A g \in Sessions: copier[g].pc # "holding" => copier[g].chunk = <<>>
    /\ \A g \in Sessions: g > gen \/ (g = gen /\ main = "start") => copier[g] = NoCopier

Fates == Accounted /\ \A k \in Keys: k > typed => fate[k] = "open"

\* Whatever the copier of an open session holds comes after what was received.
InOrder ==
    /\ Rising(ring) /\ Rising(out)
    /\ main = "attached" /\ gen \in Sessions =>
          /\ Rising(copier[gen].chunk)
          /\ \A i \in KeysOf(out), j \in KeysOf(copier[gen].chunk): i < j

Stdin == Shapes /\ InPlace /\ Reading /\ Fates /\ InOrder

LEMMA KeysAreNumbers ==
    ASSUME NEW s \in Seq(Keys)
    PROVE  KeysOf(s) \subseteq Keys
BY DEF KeysOf

LEMMA StdinStarts == Init => Stdin
<1> SUFFICES ASSUME Init PROVE Stdin
  OBVIOUS
<1>1. /\ typed = 0 /\ hand = 0 /\ ring = <<>> /\ out = <<>> /\ gen = 0 /\ main = "start" /\ run = "read"
      /\ copier = [g \in Sessions |-> NoCopier] /\ fate = [k \in Keys |-> "open"]
  BY DEF Init
<1>2. NoCopier \in Copiers /\ NoCopier.chunk = <<>> /\ \A g \in Sessions: copier[g] = NoCopier
  BY <1>1 DEF NoCopier, Copiers
<1>3. Shapes
  BY <1>1, <1>2, StdinAssumption DEF Shapes, Endings
<1>4. InPlace
  BY <1>1, <1>2, FewKeys DEF InPlace
<1>5. Reading
  BY <1>2 DEF Reading
<1>6. Fates
  BY <1>1 DEF Fates, Accounted, Keys
<1>7. InOrder
  BY <1>1, FewKeys DEF InOrder
<1> QED
  BY <1>3, <1>4, <1>5, <1>6, <1>7 DEF Stdin

\* Steps that leave the keys and copiers where they are.
Aside ==
    /\ UNCHANGED <<hand, typed, ring, fate, gen, copier, out>>
    /\ (run' \in {"read", "echo"}) <=> (run \in {"read", "echo"})
    /\ main' \in {"start", "attached"} => main' = main

LEMMA AsideKeeps ==
    ASSUME Stdin, Aside
    PROVE  Stdin'
<1>1. Shapes'
  BY DEF Stdin, Shapes, Aside
<1>2. InPlace'
  BY DEF Stdin, InPlace, Aside, Passed
<1>3. Reading'
  BY DEF Stdin, Reading, Aside
<1>4. Fates'
  BY DEF Stdin, Fates, Accounted, Aside
<1>5. InOrder'
  BY DEF Stdin, InOrder, Aside
<1> QED
  BY <1>1, <1>2, <1>3, <1>4, <1>5 DEF Stdin

LEMMA AsideSteps ==
    ASSUME Control,
           \/ LockEcho \/ EchoKey \/ StartFails \/ SessionEnds \/ RemoteExits
           \/ EnterReconnecting \/ TimerFires \/ FastRetry \/ Dial
           \/ FlushLockEcho \/ FlushLockRing \/ FlushNothing
           \/ ConnectionLost \/ NetworkBack \/ UNCHANGED vars
    PROVE  Aside
<1> USE DEF Aside, keys, env
<1>1. CASE LockEcho \/ EchoKey
  BY <1>1 DEF LockEcho, EchoKey
<1>2. CASE StartFails \/ SessionEnds \/ RemoteExits \/ EnterReconnecting \/ TimerFires
  BY <1>2 DEF StartFails, SessionEnds, RemoteExits, EnterReconnecting, TimerFires
<1>3. CASE FastRetry \/ Dial
  BY <1>3 DEF FastRetry, Dial
<1>4. CASE FlushLockEcho \/ FlushLockRing \/ FlushNothing
  BY <1>4 DEF FlushLockEcho, FlushLockRing, FlushNothing
<1>5. CASE ConnectionLost \/ NetworkBack \/ UNCHANGED vars
  BY <1>5 DEF ConnectionLost, NetworkBack, vars
<1> QED
  BY <1>1, <1>2, <1>3, <1>4, <1>5

LEMMA PassedFacts ==
    ASSUME Stdin
    PROVE  /\ typed \in Nat /\ typed <= MaxKeys /\ MaxKeys \in Nat /\ Passed \in Int /\ Passed <= typed
           /\ run \in {"read", "echo"} => hand = 0 /\ Passed = typed
           /\ run \notin {"read", "echo"} => hand = typed /\ hand # 0 /\ hand \in Keys /\ Passed = hand - 1
           /\ KeysOf(ring) \subseteq Keys /\ KeysOf(out) \subseteq Keys
           /\ \A g \in Sessions: copier[g] \in Copiers /\ KeysOf(copier[g].chunk) \subseteq Keys
<1>1. typed \in Nat /\ typed <= MaxKeys /\ MaxKeys \in Nat
  BY StdinAssumption DEF Stdin, Shapes
<1>2. (hand = 0) <=> (run \in {"read", "echo"})
  BY DEF Stdin, Shapes
<1>3. hand # 0 => hand = typed
  BY DEF Stdin, Shapes
<1>4. KeysOf(ring) \subseteq Keys /\ KeysOf(out) \subseteq Keys
  BY KeysAreNumbers DEF Stdin, Shapes
<1>5. \A g \in Sessions: copier[g] \in Copiers /\ KeysOf(copier[g].chunk) \subseteq Keys
  BY KeysAreNumbers DEF Stdin, Shapes, Copiers
<1> QED
  BY <1>1, <1>2, <1>3, <1>4, <1>5 DEF Passed, Keys

LEMMA ReadKeeps ==
    ASSUME Stdin, ReadKey
    PROVE  Stdin'
<1>1. /\ typed' = typed + 1 /\ hand' = typed + 1 /\ run' = "load" /\ typed < MaxKeys /\ hand = 0
      /\ UNCHANGED <<main, ring, fate, gen, copier, out>>
  BY PassedFacts DEF ReadKey
<1>2. typed \in Nat /\ MaxKeys \in Nat /\ typed + 1 \in 0..MaxKeys /\ typed + 1 # 0 /\ Passed = typed
  BY <1>1, PassedFacts DEF Passed
<1>3. Passed' = Passed
  BY <1>1, <1>2 DEF Passed
<1>4. Shapes'
  BY <1>1, <1>2 DEF Stdin, Shapes
<1>5. InPlace'
  BY <1>1, <1>3 DEF Stdin, InPlace
<1>6. Reading'
  BY <1>1 DEF Stdin, Reading
<1>7. Fates'
  <2>1. ASSUME NEW k \in 1..typed'
        PROVE  fate[k] \in {"open", "buffered"} <=>
                  hand' = k \/ k \in KeysOf(ring) \/ \E g \in Sessions: k \in KeysOf(copier[g].chunk)
    <3>1. CASE k = typed + 1
      BY <1>1, <1>2, <3>1 DEF Stdin, Fates, Keys
    <3>2. CASE k \in 1..typed
      BY <1>1, <1>2, <3>2 DEF Stdin, Fates, Accounted
    <3> QED
      BY <1>1, <1>2, <3>1, <3>2
  <2>2. \A k \in Keys: k > typed' => fate'[k] = "open"
    BY <1>1, <1>2 DEF Stdin, Fates, Keys
  <2> QED
    BY <1>1, <2>1, <2>2 DEF Fates, Accounted
<1>8. InOrder'
  BY <1>1 DEF Stdin, InOrder
<1> QED
  BY <1>4, <1>5, <1>6, <1>7, <1>8 DEF Stdin

LEMMA LoadKeeps ==
    ASSUME Stdin, LoadState
    PROVE  Stdin'
<1>1. run = "load" /\ UNCHANGED <<main, typed, ring, gen, copier, out>>
  BY DEF LoadState, keys
<1>2. /\ typed \in Nat /\ hand = typed /\ hand # 0 /\ hand \in Keys /\ Passed = hand - 1
  BY <1>1, PassedFacts
<1>3. CASE run' \in {"lock", "ring"} /\ hand' = hand /\ fate' = fate
  <2>1. Aside
    BY <1>1, <1>3 DEF Aside
  <2> QED
    BY <2>1, AsideKeeps
<1>4. CASE run' = "read" /\ hand' = 0 /\ End({hand}, "ignored")
  <2>1. fate' = [k \in Keys |-> IF k = hand THEN "ignored" ELSE fate[k]] /\ fate \in [Keys -> Endings]
    BY <1>4 DEF End, Stdin, Shapes
  <2>2. Passed' = typed /\ Passed < typed
    BY <1>1, <1>2, <1>4 DEF Passed
  <2>3. Shapes'
    BY <1>1, <1>4, <2>1 DEF Stdin, Shapes, Endings
  <2>4. InPlace'
    <3>1. \A k \in Keys: k <= Passed => k <= Passed'
      BY <1>2, <2>2 DEF Keys
    <3> QED
      BY <1>1, <3>1, PassedFacts DEF Stdin, InPlace
  <2>5. Reading'
    BY <1>1 DEF Stdin, Reading
  <2>6. Fates'
    <3>1. hand \notin KeysOf(ring) /\ \A g \in Sessions: hand \notin KeysOf(copier[g].chunk)
      BY <1>2 DEF Stdin, InPlace
    <3>2. ASSUME NEW k \in 1..typed
          PROVE  fate'[k] \in {"open", "buffered"} <=>
                    k \in KeysOf(ring) \/ \E g \in Sessions: k \in KeysOf(copier[g].chunk)
      <4>1. /\ k \in Keys
            /\ fate[k] \in {"open", "buffered"} <=>
                  hand = k \/ k \in KeysOf(ring) \/ \E g \in Sessions: k \in KeysOf(copier[g].chunk)
        BY PassedFacts DEF Stdin, Fates, Accounted, Keys
      <4>2. CASE k = hand
        BY <2>1, <3>1, <4>1, <4>2
      <4>3. CASE k # hand
        BY <2>1, <4>1, <4>3
      <4> QED
        BY <4>2, <4>3
    <3>3. \A k \in Keys: k > typed => fate'[k] = "open"
      BY <1>2, <2>1 DEF Stdin, Fates
    <3>4. \A k \in 1..typed: hand' # k
      BY <1>2, <1>4
    <3> QED
      BY <1>1, <3>2, <3>3, <3>4 DEF Fates, Accounted
  <2>7. InOrder'
    BY <1>1 DEF Stdin, InOrder
  <2> QED
    BY <2>3, <2>4, <2>5, <2>6, <2>7 DEF Stdin
<1> QED
  BY <1>3, <1>4 DEF LoadState

LEMMA BufferKeeps ==
    ASSUME Stdin, BufferKey
    PROVE  Stdin'
<1> DEFINE d   == IF Full THEN DropSize ELSE 0
           old == SubSeq(ring, 1, d)
           new == SubSeq(ring, d + 1, Len(ring))
<1>1. /\ run = "ring" /\ run' = "echo" /\ hand' = 0 /\ ring' = Append(new, hand)
      /\ fate' = [k \in Keys |-> IF k = hand THEN "buffered" ELSE IF k \in KeysOf(old) THEN "overflow" ELSE fate[k]]
      /\ UNCHANGED <<main, typed, gen, copier, out>>
  BY DEF BufferKey
<1>2. typed \in Nat /\ hand = typed /\ hand # 0 /\ hand \in Keys /\ Passed = hand - 1
  BY <1>1, PassedFacts
<1>3. ring \in Seq(Keys) /\ Len(ring) \in Nat /\ Len(ring) <= Capacity /\ Rising(ring) /\ fate \in [Keys -> Endings]
  BY DEF Stdin, Shapes, InOrder
<1>4. d \in 0..Len(ring) /\ Len(ring) - d + 1 <= Capacity
  BY <1>3, StdinAssumption DEF Full
<1> HIDE DEF d
<1>5. /\ new \in Seq(Keys) /\ Len(new) = Len(ring) - d /\ Rising(new)
      /\ KeysOf(ring) = KeysOf(old) \cup KeysOf(new) /\ KeysOf(old) \cap KeysOf(new) = {}
  BY <1>3, <1>4, KeysOfParts
<1> HIDE DEF new, old
<1>6. \A k \in KeysOf(ring): k \in Keys /\ k <= hand - 1 /\ k < hand
  BY <1>2, PassedFacts DEF Stdin, InPlace, Keys
<1>7. /\ ring' \in Seq(Keys) /\ KeysOf(ring') = KeysOf(new) \cup {hand} /\ Rising(ring')
      /\ Len(ring') <= Capacity
  <2>1. Len(Append(new, hand)) = Len(new) + 1
    BY <1>2, <1>5
  <2> QED
    BY <1>1, <1>2, <1>4, <1>5, <1>6, <2>1, KeysOfAppend
<1>8. Passed' = typed
  BY <1>1 DEF Passed
<1>9. Shapes'
  BY <1>1, <1>2, <1>3, <1>7 DEF Stdin, Shapes, Endings
<1>10. InPlace'
  <2>1. \A k \in Keys: k <= Passed => k <= Passed'
    BY <1>2, <1>8 DEF Keys
  <2>2. \A k \in KeysOf(ring') \cup KeysOf(out): k <= Passed'
    <3>1. \A k \in KeysOf(ring) \cup KeysOf(out): k \in Keys /\ k <= Passed
      BY PassedFacts DEF Stdin, InPlace
    <3>2. hand <= Passed'
      BY <1>2, <1>8
    <3> QED
      BY <1>5, <1>7, <2>1, <3>1, <3>2
  <2>3. \A g \in Sessions: \A k \in KeysOf(copier[g].chunk): k <= Passed' /\ k \notin KeysOf(ring')
    <3>1. \A g \in Sessions: \A k \in KeysOf(copier[g].chunk): k \in Keys /\ k <= Passed /\ k \notin KeysOf(ring)
      BY PassedFacts DEF Stdin, InPlace
    <3>2. \A k \in Keys: k <= Passed => k # hand
      BY <1>2 DEF Keys
    <3> QED
      BY <1>5, <1>7, <2>1, <3>1, <3>2
  <2> QED
    BY <1>1, <2>2, <2>3 DEF Stdin, InPlace
<1>11. Reading'
  BY <1>1 DEF Stdin, Reading
<1>12. Fates'
  <2>1. \A g \in Sessions: \A k \in KeysOf(copier[g].chunk): k \notin KeysOf(ring) /\ k # hand
    <3>1. \A g \in Sessions: \A k \in KeysOf(copier[g].chunk): k \in Keys /\ k <= Passed /\ k \notin KeysOf(ring)
      BY PassedFacts DEF Stdin, InPlace
    <3>2. \A k \in Keys: k <= Passed => k # hand
      BY <1>2 DEF Keys
    <3> QED
      BY <3>1, <3>2
  <2>2. \A k \in KeysOf(old): k # hand
    BY <1>2, <1>5, <1>6
  <2>3. ASSUME NEW k \in 1..typed
        PROVE  fate'[k] \in {"open", "buffered"} <=>
                  k \in KeysOf(ring') \/ \E g \in Sessions: k \in KeysOf(copier[g].chunk)
    <3>1. /\ k \in Keys
          /\ fate[k] \in {"open", "buffered"} <=>
                hand = k \/ k \in KeysOf(ring) \/ \E g \in Sessions: k \in KeysOf(copier[g].chunk)
      BY PassedFacts DEF Stdin, Fates, Accounted, Keys
    <3>2. CASE k = hand
      BY <1>1, <1>7, <3>1, <3>2
    <3>3. CASE k # hand /\ k \in KeysOf(old)
      BY <1>1, <1>5, <1>7, <2>1, <3>1, <3>3
    <3>4. CASE k # hand /\ k \notin KeysOf(old)
      BY <1>1, <1>5, <1>7, <3>1, <3>4
    <3> QED
      BY <3>2, <3>3, <3>4
  <2>4. \A k \in Keys: k > typed => fate'[k] = "open"
    <3>1. ASSUME NEW k \in Keys, k > typed PROVE fate'[k] = "open"
      <4>1. k # hand /\ k \notin KeysOf(old) /\ fate[k] = "open"
        BY <1>2, <1>5, <1>6, <3>1 DEF Stdin, Fates, Keys
      <4> QED
        BY <1>1, <4>1
    <3> QED
      BY <3>1
  <2>5. \A k \in 1..typed: hand' # k
    BY <1>1
  <2> QED
    BY <1>1, <2>3, <2>4, <2>5 DEF Fates, Accounted
<1>13. InOrder'
  BY <1>1, <1>7 DEF Stdin, InOrder
<1> QED
  BY <1>9, <1>10, <1>11, <1>12, <1>13 DEF Stdin

\* Keys go into the pipe: copier g now holds them, and they were in the hand or the ring.
LEMMA HandToGives ==
    ASSUME Stdin, NEW g \in Sessions, NEW chunk \in Seq(Keys), HandTo(g, chunk)
    PROVE  /\ copier' \in [Sessions -> Copiers] /\ copier'[g].chunk = chunk /\ copier'[g].pc = "holding"
           /\ copier[g].chunk = <<>> /\ KeysOf(copier[g].chunk) = {}
           /\ \A h \in Sessions: h # g => copier'[h] = copier[h]
           /\ ~(g > gen) /\ ~(g = gen /\ main = "start")
<1>1. copier \in [Sessions -> Copiers] /\ copier[g].pc = "reading"
  BY DEF HandTo, Stdin, Shapes
<1>2. copier' = [copier EXCEPT ![g] = [pc |-> "holding", chunk |-> chunk]]
  BY DEF HandTo
<1>3. copier[g].chunk = <<>>
  BY <1>1 DEF Stdin, Reading
<1>4. copier[g] # NoCopier
  BY <1>1 DEF NoCopier
<1>5. ~(g > gen) /\ ~(g = gen /\ main = "start")
  BY <1>4 DEF Stdin, Reading
<1> QED
  BY <1>1, <1>2, <1>3, <1>5, FewKeys DEF Copiers

LEMMA WriteKeeps ==
    ASSUME Control, Stdin, DirectWrite
    PROVE  Stdin'
<1>1. PICK g \in Sessions: HandTo(g, <<hand>>)
  BY DEF DirectWrite
<1>2. /\ run = "write" /\ run' = "read" /\ hand' = 0
      /\ UNCHANGED <<main, typed, ring, fate, gen, out>>
  BY DEF DirectWrite
<1>3. typed \in Nat /\ hand = typed /\ hand # 0 /\ hand \in Keys /\ Passed = hand - 1
  BY <1>2, PassedFacts
<1>4. <<hand>> \in Seq(Keys)
  BY <1>3
<1> DEFINE chunk == <<hand>>
<1>5. chunk \in Seq(Keys) /\ KeysOf(chunk) = {hand} /\ Rising(chunk)
  BY <1>4, FewKeys
<1> HIDE DEF chunk
<1>6. /\ copier' \in [Sessions -> Copiers] /\ copier'[g].chunk = chunk /\ copier'[g].pc = "holding"
      /\ KeysOf(copier[g].chunk) = {} /\ \A h \in Sessions: h # g => copier'[h] = copier[h]
      /\ ~(g > gen) /\ ~(g = gen /\ main = "start")
  <2>1. HandTo(g, chunk)
    BY <1>1 DEF chunk
  <2> QED
    BY <1>5, <2>1, HandToGives
<1>7. Passed' = typed
  BY <1>2 DEF Passed
<1>8. Shapes'
  BY <1>2, <1>6 DEF Stdin, Shapes
<1>9. \A k \in Keys: k <= Passed => k <= Passed' /\ k < hand
  BY <1>3, <1>7 DEF Keys
<1>10. /\ \A k \in KeysOf(ring) \cup KeysOf(out): k \in Keys /\ k <= Passed
       /\ \A h \in Sessions: \A k \in KeysOf(copier[h].chunk): k \in Keys /\ k <= Passed /\ k \notin KeysOf(ring)
  BY PassedFacts DEF Stdin, InPlace
<1>11. hand <= Passed' /\ hand \notin KeysOf(ring) /\ \A h \in Sessions: hand \notin KeysOf(copier[h].chunk)
  <2>1. hand <= Passed' /\ ~(hand < hand)
    BY <1>3, <1>7
  <2> QED
    BY <1>9, <1>10, <2>1
<1>12. InPlace'
  <2>1. \A h \in Sessions: KeysOf(copier'[h].chunk) = IF h = g THEN {hand} ELSE KeysOf(copier[h].chunk)
    BY <1>5, <1>6
  <2>2. \A h, i \in Sessions: h # i => KeysOf(copier'[h].chunk) \cap KeysOf(copier'[i].chunk) = {}
    BY <1>11, <2>1 DEF Stdin, InPlace
  <2> QED
    BY <1>2, <1>9, <1>10, <1>11, <2>1, <2>2 DEF InPlace
<1>13. Reading'
  BY <1>2, <1>6 DEF Stdin, Reading
<1>14. Fates'
  <2>1. ASSUME NEW k \in 1..typed
        PROVE  fate[k] \in {"open", "buffered"} <=>
                  k \in KeysOf(ring) \/ \E h \in Sessions: k \in KeysOf(copier'[h].chunk)
    <3>1. fate[k] \in {"open", "buffered"} <=>
             hand = k \/ k \in KeysOf(ring) \/ \E h \in Sessions: k \in KeysOf(copier[h].chunk)
      BY DEF Stdin, Fates, Accounted
    <3>2. (\E h \in Sessions: k \in KeysOf(copier'[h].chunk)) <=>
             hand = k \/ \E h \in Sessions: k \in KeysOf(copier[h].chunk)
      BY <1>5, <1>6
    <3> QED
      BY <3>1, <3>2
  <2>2. \A k \in 1..typed: hand' # k
    BY <1>2
  <2> QED
    BY <1>2, <2>1, <2>2 DEF Stdin, Fates, Accounted
<1>15. InOrder'
  <2>1. ASSUME main = "attached", gen \in Sessions
        PROVE  /\ Rising(copier'[gen].chunk)
               /\ \A i \in KeysOf(out), j \in KeysOf(copier'[gen].chunk): i < j
    <3>1. CASE g = gen
      BY <1>5, <1>6, <1>9, <1>10, <3>1
    <3>2. CASE g # gen
      BY <1>6, <2>1, <3>2 DEF Stdin, InOrder
    <3> QED
      BY <3>1, <3>2
  <2> QED
    BY <1>2, <2>1 DEF Stdin, InOrder
<1> QED
  BY <1>8, <1>12, <1>13, <1>14, <1>15 DEF Stdin

LEMMA FlushKeeps ==
    ASSUME Stdin, FlushRing
    PROVE  Stdin'
<1>1. PICK g \in Sessions: HandTo(g, ring)
  BY DEF FlushRing
<1>2. ring' = <<>> /\ main' = "connect" /\ UNCHANGED <<run, hand, typed, fate, gen, out>> /\ main = "flush"
  BY DEF FlushRing
<1>3. ring \in Seq(Keys)
  BY DEF Stdin, Shapes
<1>4. /\ copier' \in [Sessions -> Copiers] /\ copier'[g].chunk = ring /\ copier'[g].pc = "holding"
      /\ KeysOf(copier[g].chunk) = {} /\ \A h \in Sessions: h # g => copier'[h] = copier[h]
      /\ ~(g > gen)
  BY <1>1, <1>3, HandToGives
<1>5. Passed' = Passed /\ KeysOf(ring') = {}
  BY <1>2, FewKeys DEF Passed
<1>6. Shapes'
  BY <1>2, <1>4, StdinAssumption DEF Stdin, Shapes
<1>7. InPlace'
  <2>1. \A h \in Sessions: KeysOf(copier'[h].chunk) = IF h = g THEN KeysOf(ring) ELSE KeysOf(copier[h].chunk)
    BY <1>4
  <2>2. \A h, i \in Sessions: h # i => KeysOf(copier'[h].chunk) \cap KeysOf(copier'[i].chunk) = {}
    BY <2>1 DEF Stdin, InPlace
  <2>3. \A h \in Sessions: \A k \in KeysOf(copier'[h].chunk): k <= Passed
    BY <2>1 DEF Stdin, InPlace
  <2> QED
    BY <1>2, <1>5, <2>2, <2>3 DEF Stdin, InPlace
<1>8. Reading'
  BY <1>2, <1>4 DEF Stdin, Reading
<1>9. Fates'
  <2>1. ASSUME NEW k \in 1..typed
        PROVE  fate[k] \in {"open", "buffered"} <=> hand = k \/ \E h \in Sessions: k \in KeysOf(copier'[h].chunk)
    <3>1. fate[k] \in {"open", "buffered"} <=>
             hand = k \/ k \in KeysOf(ring) \/ \E h \in Sessions: k \in KeysOf(copier[h].chunk)
      BY DEF Stdin, Fates, Accounted
    <3>2. (\E h \in Sessions: k \in KeysOf(copier'[h].chunk)) <=>
             k \in KeysOf(ring) \/ \E h \in Sessions: k \in KeysOf(copier[h].chunk)
      BY <1>4
    <3> QED
      BY <3>1, <3>2
  <2> QED
    BY <1>2, <1>5, <2>1 DEF Stdin, Fates, Accounted
<1>10. InOrder'
  BY <1>2, FewKeys DEF Stdin, InOrder
<1> QED
  BY <1>6, <1>7, <1>8, <1>9, <1>10 DEF Stdin

LEMMA SessionKeeps ==
    ASSUME Control, Stdin, StartSession \/ Connected
    PROVE  Stdin'
<1>1. UNCHANGED <<run, hand, typed, ring, fate, out>>
  BY DEF StartSession, Connected, keys
<1>2. Passed' = Passed /\ gen \in Nat
  BY <1>1 DEF Passed, Control, Counted
<1>3. CASE StartSession
  <2>1. /\ copier' = [copier EXCEPT ![gen].pc = "reading"] /\ main = "start" /\ main' = "attached" /\ gen' = gen
        /\ copier \in [Sessions -> Copiers]
    BY <1>3 DEF StartSession, Stdin, Shapes
  <2>2. /\ copier' \in [Sessions -> Copiers]
        /\ \A h \in Sessions: copier'[h].chunk = copier[h].chunk
        /\ \A h \in Sessions: h # gen => copier'[h] = copier[h]
        /\ gen \in Sessions => copier'[gen].chunk = <<>> /\ copier[gen] = NoCopier
    <3>1. gen \in Sessions => copier[gen] = NoCopier
      BY <2>1 DEF Stdin, Reading
    <3>2. gen \in Sessions => copier[gen].chunk = <<>>
      BY <3>1 DEF NoCopier
    <3>3. \A h \in Sessions: h # gen => copier'[h] = copier[h]
      BY <2>1
    <3>4. \A h \in Sessions: copier[h] \in Copiers /\ copier'[h] \in Copiers /\ copier'[h].chunk = copier[h].chunk
      BY <2>1 DEF Copiers
    <3>5. copier' \in [Sessions -> Copiers]
      BY <2>1, <3>4
    <3> QED
      BY <3>1, <3>2, <3>3, <3>4, <3>5
  <2>3. Shapes'
    BY <1>1, <2>2 DEF Stdin, Shapes
  <2> DEFINE C(h) == KeysOf(copier[h].chunk)
             D(h) == KeysOf(copier'[h].chunk)
  <2>4. \A h \in Sessions: D(h) = C(h)
    BY <2>2
  <2>5. InPlace'
    <3>1. /\ \A h \in Sessions: \A k \in C(h): k <= Passed /\ k \notin KeysOf(ring)
          /\ \A h, i \in Sessions: h # i => C(h) \cap C(i) = {}
      BY DEF Stdin, InPlace
    <3>2. /\ \A h \in Sessions: \A k \in D(h): k <= Passed /\ k \notin KeysOf(ring)
          /\ \A h, i \in Sessions: h # i => D(h) \cap D(i) = {}
      <4> HIDE DEF C, D
      <4> QED
        BY <2>4, <3>1
    <3> QED
      BY <1>1, <1>2, <3>2 DEF Stdin, InPlace
  <2>6. Reading'
    <3>1. \A h \in Sessions: copier'[h].pc # "holding" => copier'[h].chunk = <<>>
      BY <2>2 DEF Stdin, Reading
    <3>2. \A h \in Sessions: h > gen => h # gen
      BY <1>2 DEF Sessions
    <3>3. \A h \in Sessions: h > gen => copier'[h] = NoCopier
      BY <2>2, <3>2 DEF Stdin, Reading
    <3> QED
      BY <2>1, <3>1, <3>3 DEF Reading
  <2>7. Fates'
    <3>1. \A k \in 1..typed: fate[k] \in {"open", "buffered"} <=>
             hand = k \/ k \in KeysOf(ring) \/ \E h \in Sessions: k \in C(h)
      BY DEF Stdin, Fates, Accounted
    <3>2. \A k \in 1..typed: fate[k] \in {"open", "buffered"} <=>
             hand = k \/ k \in KeysOf(ring) \/ \E h \in Sessions: k \in D(h)
      <4> HIDE DEF C, D
      <4> QED
        BY <2>4, <3>1
    <3> QED
      BY <1>1, <3>2 DEF Stdin, Fates, Accounted
  <2>8. InOrder'
    <3>1. gen \in Sessions => copier'[gen].chunk = <<>>
      BY <2>2
    <3>2. gen \in Sessions => Rising(copier'[gen].chunk) /\ KeysOf(copier'[gen].chunk) = {}
      BY <3>1, FewKeys
    <3> QED
      BY <1>1, <2>1, <3>2 DEF Stdin, InOrder
  <2> QED
    BY <2>3, <2>5, <2>6, <2>7, <2>8 DEF Stdin
<1>4. CASE Connected
  <2>1. gen' = gen + 1 /\ main' = "start" /\ copier' = copier
    BY <1>4 DEF Connected
  <2>2. Shapes'
    BY <1>1, <2>1 DEF Stdin, Shapes
  <2>3. InPlace'
    BY <1>1, <1>2, <2>1 DEF Stdin, InPlace
  <2>4. Reading'
    <3>1. \A g \in Sessions: g > gen' \/ g = gen' => g > gen
      BY <1>2, <2>1 DEF Sessions
    <3> QED
      BY <2>1, <3>1 DEF Stdin, Reading
  <2>5. Fates'
    BY <1>1, <2>1 DEF Stdin, Fates, Accounted
  <2>6. InOrder'
    BY <1>1, <2>1 DEF Stdin, InOrder
  <2> QED
    BY <2>2, <2>3, <2>4, <2>5, <2>6 DEF Stdin
<1> QED
  BY <1>3, <1>4

\* Copier g is rid of its keys, which have ended.
Parts(g, c) ==
    /\ copier[g].pc = "holding" /\ c \in Copiers /\ c.chunk = <<>> /\ c.pc # "holding"
    /\ copier' = [copier EXCEPT ![g] = c]
    /\ fate' \in [Keys -> Endings]
    /\ \A k \in Keys: IF k \in KeysOf(copier[g].chunk) THEN fate'[k] \notin {"open", "buffered"}
                                                      ELSE fate'[k] = fate[k]
    /\ UNCHANGED <<main, run, hand, typed, ring, gen>>

LEMMA PartsKeeps ==
    ASSUME Stdin, NEW g \in Sessions, NEW c, Parts(g, c),
           out' = out \/ (g = gen /\ main = "attached" /\ out' = out \o copier[g].chunk)
    PROVE  Stdin'
<1> DEFINE C(h) == KeysOf(copier[h].chunk)
           D(h) == KeysOf(copier'[h].chunk)
<1>1. /\ copier \in [Sessions -> Copiers] /\ copier' \in [Sessions -> Copiers] /\ copier'[g] = c
      /\ c.chunk = <<>> /\ c.pc # "holding"
      /\ \A h \in Sessions: h # g => copier'[h] = copier[h]
      /\ copier[g] # NoCopier
  BY DEF Parts, Stdin, Shapes, NoCopier
<1>2. D(g) = {} /\ \A h \in Sessions: h # g => D(h) = C(h)
  BY <1>1, FewKeys
<1>3. Passed' = Passed /\ UNCHANGED <<main, run, hand, typed, ring, gen>>
  BY DEF Parts, Passed
<1>4. /\ out' \in Seq(Keys) /\ KeysOf(out') \subseteq KeysOf(out) \cup C(g) /\ Rising(out')
  <2>1. out \in Seq(Keys) /\ copier[g].chunk \in Seq(Keys) /\ Rising(out)
    BY <1>1 DEF Stdin, Shapes, InOrder, Copiers
  <2>2. CASE out' = out
    BY <2>1, <2>2
  <2>3. CASE g = gen /\ main = "attached" /\ out' = out \o copier[g].chunk
    <3>1. Rising(copier[g].chunk) /\ \A i \in KeysOf(out), j \in KeysOf(copier[g].chunk): i < j
      BY <2>3 DEF Stdin, InOrder
    <3> QED
      BY <2>1, <2>3, <3>1, KeysOfConcat
  <2> QED
    BY <2>2, <2>3
<1>5. Shapes'
  BY <1>1, <1>3, <1>4 DEF Stdin, Shapes, Parts
<1>6. InPlace'
  <2>1. /\ \A k \in KeysOf(ring) \cup KeysOf(out): k <= Passed
        /\ \A h \in Sessions: \A k \in C(h): k <= Passed /\ k \notin KeysOf(ring)
        /\ \A h, i \in Sessions: h # i => C(h) \cap C(i) = {}
    BY DEF Stdin, InPlace
  <2>2. /\ \A k \in KeysOf(ring) \cup KeysOf(out'): k <= Passed
        /\ \A h \in Sessions: \A k \in D(h): k <= Passed /\ k \notin KeysOf(ring)
        /\ \A h, i \in Sessions: h # i => D(h) \cap D(i) = {}
    <3> HIDE DEF C, D
    <3> QED
      BY <1>2, <1>4, <2>1
  <2> QED
    BY <1>3, <2>2 DEF InPlace
<1>7. Reading'
  BY <1>1, <1>3 DEF Stdin, Reading
<1>8. Fates'
  <2>1. ASSUME NEW k \in 1..typed
        PROVE  fate'[k] \in {"open", "buffered"} <=>
                  hand = k \/ k \in KeysOf(ring) \/ \E h \in Sessions: k \in D(h)
    <3>1. /\ k \in Keys
          /\ fate[k] \in {"open", "buffered"} <=>
                hand = k \/ k \in KeysOf(ring) \/ \E h \in Sessions: k \in C(h)
      BY PassedFacts DEF Stdin, Fates, Accounted, Keys
    <3>2. CASE k \in C(g)
      <4>1. k <= Passed /\ k \notin KeysOf(ring) /\ \A h \in Sessions: h # g => k \notin C(h)
        BY <3>2 DEF Stdin, InPlace
      <4>2. hand # k
        BY <4>1, <3>1, PassedFacts DEF Passed, Keys
      <4>3. fate'[k] \notin {"open", "buffered"}
        BY <3>1, <3>2 DEF Parts
      <4> HIDE DEF C, D
      <4> QED
        BY <1>2, <4>1, <4>2, <4>3
    <3>3. CASE k \notin C(g)
      <4>1. fate'[k] = fate[k]
        BY <3>1, <3>3 DEF Parts
      <4> HIDE DEF C, D
      <4> QED
        BY <1>2, <3>1, <3>3, <4>1
    <3> QED
      BY <3>2, <3>3
  <2>2. \A k \in Keys: k > typed => fate'[k] = "open"
    <3>1. \A k \in C(g): k \in Keys /\ k <= Passed
      BY PassedFacts DEF Stdin, InPlace
    <3>2. \A k \in Keys: k > typed => ~(k <= Passed)
      BY PassedFacts DEF Keys
    <3> QED
      BY <3>1, <3>2 DEF Parts, Stdin, Fates
  <2> QED
    BY <1>3, <2>1, <2>2 DEF Fates, Accounted
<1>9. InOrder'
  <2>1. ASSUME main = "attached", gen \in Sessions
        PROVE  /\ Rising(copier'[gen].chunk)
               /\ \A i \in KeysOf(out'), j \in KeysOf(copier'[gen].chunk): i < j
    <3>1. CASE g = gen
      BY <1>1, <3>1, FewKeys
    <3>2. CASE g # gen
      <4>1. out' = out
        BY <3>2
      <4> QED
        BY <1>1, <2>1, <3>2, <4>1 DEF Stdin, InOrder
    <3> QED
      BY <3>1, <3>2
  <2> QED
    BY <1>3, <1>4, <2>1 DEF Stdin, InOrder
<1> QED
  BY <1>5, <1>6, <1>7, <1>8, <1>9 DEF Stdin

LEMMA CopyKeeps ==
    ASSUME Stdin, NEW g \in Sessions, Copy(g)
    PROVE  Stdin'
<1>1. fate \in [Keys -> Endings]
  BY DEF Stdin, Shapes
<1>2. CASE Forward(g)
  <2> DEFINE c == [pc |-> "reading", chunk |-> <<>>]
  <2>1. /\ copier[g].pc = "holding" /\ g = gen /\ main = "attached" /\ copier' = [copier EXCEPT ![g] = c]
        /\ UNCHANGED <<main, run, hand, typed, ring, gen>>
    BY <1>2 DEF Forward, Open
  <2>2. \/ out' = out \o copier[g].chunk /\ End(KeysOf(copier[g].chunk), "received")
        \/ out' = out /\ End(KeysOf(copier[g].chunk), "wire")
    BY <1>2 DEF Forward
  <2>3. /\ fate' \in [Keys -> Endings]
        /\ \A k \in Keys: IF k \in KeysOf(copier[g].chunk) THEN fate'[k] \notin {"open", "buffered"}
                                                          ELSE fate'[k] = fate[k]
    BY <1>1, <2>2 DEF End, Endings
  <2>4. c \in Copiers /\ c.chunk = <<>> /\ c.pc # "holding"
    BY DEF Copiers
  <2> HIDE DEF c
  <2>5. Parts(g, c)
    BY <2>1, <2>3, <2>4 DEF Parts
  <2> QED
    BY <2>1, <2>2, <2>5, PartsKeeps
<1>3. CASE Swallow(g)
  <2> DEFINE c == [pc |-> "gone", chunk |-> <<>>]
  <2>1. /\ copier[g].pc = "holding" /\ copier' = [copier EXCEPT ![g] = c] /\ out' = out
        /\ UNCHANGED <<main, run, hand, typed, ring, gen>>
    BY <1>3 DEF Swallow
  <2>2. fate' = [k \in Keys |-> IF k \notin KeysOf(copier[g].chunk) THEN fate[k]
                                ELSE IF fate[k] = "buffered" THEN "swallowed" ELSE "cut"]
    BY <1>3 DEF Swallow
  <2>3. /\ fate' \in [Keys -> Endings]
        /\ \A k \in Keys: IF k \in KeysOf(copier[g].chunk) THEN fate'[k] \notin {"open", "buffered"}
                                                          ELSE fate'[k] = fate[k]
    BY <1>1, <2>2 DEF Endings
  <2>4. c \in Copiers /\ c.chunk = <<>> /\ c.pc # "holding"
    BY DEF Copiers
  <2> HIDE DEF c
  <2>5. Parts(g, c)
    BY <2>1, <2>3, <2>4 DEF Parts
  <2> QED
    BY <2>1, <2>5, PartsKeeps
<1> QED
  BY <1>2, <1>3 DEF Copy

-----------------------------------------------------------------------------
(* The invariant and what follows.                                         *)

LEMMA StdinKept ==
    ASSUME Control, Stdin, [Next]_vars
    PROVE  Stdin'
<1>1. ASSUME Aside PROVE Stdin'
  BY <1>1, AsideKeeps
<1>2. CASE ReadKey \/ Buffer
  BY <1>1, <1>2, AsideSteps, ReadKeeps, LoadKeeps, WriteKeeps, BufferKeeps DEF Buffer
<1>3. CASE Attach \/ RemoteExits
  BY <1>1, <1>3, AsideSteps, SessionKeeps DEF Attach
<1>4. CASE Reconnect
  BY <1>1, <1>4, AsideSteps, SessionKeeps, FlushKeeps DEF Reconnect, Flush
<1>5. CASE \E g \in Sessions: Copy(g)
  BY <1>5, CopyKeeps
<1>6. CASE ConnectionLost \/ NetworkBack \/ UNCHANGED vars
  BY <1>1, <1>6, AsideSteps
<1> QED
  BY <1>2, <1>3, <1>4, <1>5, <1>6 DEF Next

LEMMA StdinInvariant == Spec => [](Control /\ Stdin)
<1>1. Init => Control /\ Stdin
  BY ControlStarts, StdinStarts
<1>2. Control /\ Stdin /\ [Next]_vars => Control' /\ Stdin'
  BY ControlKept, StdinKept
<1> QED
  BY <1>1, <1>2, PTL DEF Spec

(* Types of all variables, for any number of keys, lost connections and    *)
(* fast retries; among them that a session needs a lost connection and     *)
(* that the ring keeps to its capacity.                                    *)
THEOREM StdinTyping == Spec => []StdinTypeOK
<1>1. Control /\ Stdin => StdinTypeOK
  <2> SUFFICES ASSUME Control, Stdin PROVE StdinTypeOK
    OBVIOUS
  <2>1. net \in BOOLEAN /\ alive \in BOOLEAN /\ trigger \in BOOLEAN
    BY DEF Control, Flags
  <2>2. gen \in Sessions /\ gen <= drops /\ drops \in 0..MaxDrops
    <3>1. gen \in Nat /\ drops \in 0..MaxDrops /\ gen <= drops
      BY DEF Control, Turns, Counted, Places, Back, Dialled
    <3> QED
      BY <3>1, StdinAssumption DEF Sessions
  <2>3. KeysOf(ring) \subseteq 1..typed /\ Len(ring) <= Capacity
    <3>1. \A k \in KeysOf(ring): k \in Keys /\ k <= Passed /\ Passed <= typed
      BY PassedFacts DEF Stdin, InPlace
    <3> QED
      BY <3>1, PassedFacts DEF Keys, Stdin, Shapes
  <2>4. fast \in 0..(FastLimit + 1)
    BY StdinAssumption DEF Control, Turns
  <2>5. /\ state \in {"connected", "reconnecting", "gaveup"} /\ main \in Places
        /\ run \in {"read", "load", "lock", "write", "ring", "echo"}
    BY DEF Control, Turns
  <2>6. typed \in 0..MaxKeys /\ hand \in {0, typed} /\ ((hand = 0) <=> (run \in {"read", "echo"}))
    BY DEF Stdin, Shapes
  <2> QED
    BY <2>1, <2>2, <2>3, <2>4, <2>5, <2>6 DEF StdinTypeOK
<1> QED
  BY <1>1, StdinInvariant, PTL

(* No key that was typed is in two places, or in none before it has ended. *)
THEOREM KeysAccounted == Spec => []Accounted
<1>1. Stdin => Accounted
  BY DEF Stdin, Fates
<1> QED
  BY <1>1, StdinInvariant, PTL

(* The server receives keys in the order of typing, and none twice.        *)
THEOREM KeysInOrder == Spec => []OrderKept
<1>1. Stdin => OrderKept
  BY DEF Stdin, InOrder, Rising, OrderKept
<1> QED
  BY <1>1, StdinInvariant, PTL
=============================================================================
