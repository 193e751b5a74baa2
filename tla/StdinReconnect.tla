--------------------------- MODULE StdinReconnect ---------------------------
(***************************************************************************)
(* The terminal client while its SSH connection comes and goes: the        *)
(* BufferedStdin goroutine that reads the keyboard, the attach loop with   *)
(* its Reconnector, and for every session the goroutine that               *)
(* golang.org/x/crypto/ssh starts to copy Session.Stdin, here the read end *)
(* of one io.Pipe that all sessions share.                                 *)
(*                                                                         *)
(* A write to an io.Pipe returns once a reader took the bytes, whichever   *)
(* session that reader belongs to.  Session.Wait does not end a copier     *)
(* that is blocked in Read: it ends when it has read once more and finds   *)
(* its session closed.                                                     *)
(*                                                                         *)
(* A key is its position in what the user types.                           *)
(***************************************************************************)
EXTENDS Integers, Sequences, FiniteSets

CONSTANTS
    MaxKeys,   \* bound: keys the user types
    MaxDrops,  \* bound: connections that are lost
    Capacity,  \* RingBufCapacity, 4096 in the code
    DropSize,  \* how many of the oldest bytes an overflow drops, 1024 in the code
    FastLimit  \* fast retries that exceededFastRetryBudget allows, 5 in the code

ASSUME StdinAssumption ==
    /\ MaxKeys \in Nat /\ MaxDrops \in Nat /\ FastLimit \in Nat
    /\ Capacity \in Nat /\ DropSize \in 1..Capacity

VARIABLES
    net,      \* can the server be dialled
    alive,    \* is the connection of the current session alive
    drops,    \* connections lost so far
    state,    \* Reconnector.state, shared with BufferedStdin
    main,     \* the attach loop, Reconnector.Run and Flush
    run,      \* BufferedStdin.Run
    hand,     \* the key Run has read and not yet passed on, or 0
    typed,    \* keys read from the terminal so far
    ring,     \* ringBuf
    gen,      \* the current session
    copier,   \* per session: what its stdin goroutine does, and the bytes it holds
    trigger,  \* triggerCh, one place
    fast,     \* fastRetryCount
    out,      \* history: the keys the server received
    fate      \* history: per key, "open", "buffered" (open, by way of the ring) or
              \* how it ended

env  == <<net, alive, drops>>
keys == <<hand, typed, ring, fate>>
vars == <<env, state, main, run, keys, gen, copier, trigger, fast, out>>

Keys     == 1..MaxKeys
Sessions == 0..MaxDrops
NoCopier == [pc |-> "none", chunk |-> <<>>]
KeysOf(s) == {s[i] : i \in DOMAIN s}

Init ==
    /\ net = TRUE /\ alive = TRUE /\ drops = 0
    /\ state = "connected"
    /\ main = "start"
    /\ run = "read"
    /\ hand = 0 /\ typed = 0
    /\ ring = <<>>
    /\ gen = 0
    /\ copier = [g \in Sessions |-> NoCopier]
    /\ trigger = FALSE
    /\ fast = 0
    /\ out = <<>>
    /\ fate = [k \in Keys |-> "open"]

\* The locks: Run holds echoMu while it writes to the pipe, Flush while it
\* waits for ringMu and while it writes.
EchoFree == run # "write" /\ main \notin {"flushring", "flush"}
RingFree == main # "flush"

\* The keys of ks become f.
End(ks, f) == fate' = [k \in Keys |-> IF k \in ks THEN f ELSE fate[k]]

-----------------------------------------------------------------------------
(* BufferedStdin.Run.                                                      *)

ReadKey ==
    /\ run = "read" /\ main # "exit"
    /\ typed < MaxKeys
    /\ typed' = typed + 1 /\ hand' = typed + 1
    /\ run' = "load"
    /\ UNCHANGED <<env, state, main, ring, fate, gen, copier, trigger, fast, out>>

\* The state is read once; what follows may find another one.
LoadState ==
    /\ run = "load"
    /\ \/ /\ state = "connected"    /\ run' = "lock" /\ UNCHANGED <<hand, fate>>
       \/ /\ state = "reconnecting" /\ run' = "ring" /\ UNCHANGED <<hand, fate>>
       \/ /\ state = "gaveup" /\ run' = "read" /\ hand' = 0 /\ End({hand}, "ignored")
    /\ UNCHANGED <<env, state, main, typed, ring, gen, copier, trigger, fast, out>>

LockEcho ==
    /\ run = "lock" /\ EchoFree
    /\ run' = "write"
    /\ UNCHANGED <<env, state, main, keys, gen, copier, trigger, fast, out>>

\* The write and some copier's Read: with several copiers waiting, the
\* runtime chooses.
HandTo(g, chunk) ==
    /\ copier[g].pc = "reading"
    /\ copier' = [copier EXCEPT ![g] = [pc |-> "holding", chunk |-> chunk]]

DirectWrite ==
    /\ run = "write"
    /\ \E g \in Sessions : HandTo(g, <<hand>>)
    /\ run' = "read" /\ hand' = 0
    /\ UNCHANGED <<env, state, main, typed, ring, fate, gen, trigger, fast, out>>

Full == Len(ring) >= Capacity

\* Not the code: the ring drops nothing.
BufferKeyUnbounded ==
    /\ run = "ring" /\ RingFree
    /\ ring' = Append(ring, hand)
    /\ fate' = [fate EXCEPT ![hand] = "buffered"]
    /\ run' = "echo" /\ hand' = 0
    /\ UNCHANGED <<env, state, main, typed, gen, copier, trigger, fast, out>>

BufferKey ==
    /\ run = "ring" /\ RingFree
    /\ LET dropped == IF Full THEN DropSize ELSE 0
       IN  /\ ring' = Append(SubSeq(ring, dropped + 1, Len(ring)), hand)
           /\ fate' = [k \in Keys |-> IF k = hand THEN "buffered"
                                      ELSE IF k \in KeysOf(SubSeq(ring, 1, dropped)) THEN "overflow"
                                      ELSE fate[k]]
    /\ run' = "echo" /\ hand' = 0
    /\ UNCHANGED <<env, state, main, typed, gen, copier, trigger, fast, out>>

\* The gray echo; then onEnter, which is Trigger, when the key was Enter.
EchoKey ==
    /\ run = "echo" /\ EchoFree
    /\ trigger' \in {trigger, TRUE}
    /\ run' = "read"
    /\ UNCHANGED <<env, state, main, keys, gen, copier, fast, out>>

-----------------------------------------------------------------------------
(* runClaudePTYWithReconnect, pTYAttachOnce, Reconnector.Run and Flush.    *)

StartSession ==
    /\ main = "start" /\ alive
    /\ copier' = [copier EXCEPT ![gen].pc = "reading"]
    /\ main' = "attached"
    /\ UNCHANGED <<env, state, run, keys, gen, trigger, fast, out>>

\* NewSession, RequestPty or Start fails: not a reconnectable error.
StartFails ==
    /\ main = "start" /\ ~alive
    /\ main' = "exit"
    /\ UNCHANGED <<env, state, run, keys, gen, copier, trigger, fast, out>>

RemoteExits ==
    /\ main = "attached" /\ alive
    /\ main' = "exit"
    /\ UNCHANGED <<env, state, run, keys, gen, copier, trigger, fast, out>>

\* RunKeepAlive closes the connection or the transport fails: Wait returns,
\* and state still says connected.
SessionEnds ==
    /\ main = "attached" /\ ~alive
    /\ main' = "ended"
    /\ UNCHANGED <<env, state, run, keys, gen, copier, trigger, fast, out>>

EnterReconnecting ==
    /\ main = "ended"
    /\ state' = "reconnecting"
    /\ main' = "wait"
    /\ UNCHANGED <<env, run, keys, gen, copier, trigger, fast, out>>

\* Not the code: only Enter wakes the Reconnector.
TimerFiresOnEnter ==
    /\ main = "wait" /\ trigger
    /\ main' = "dial"
    /\ UNCHANGED <<env, state, run, keys, gen, copier, trigger, fast, out>>

TimerFires ==
    /\ main = "wait"
    /\ main' = "dial"
    /\ UNCHANGED <<env, state, run, keys, gen, copier, trigger, fast, out>>

\* recordFastRetry: one more in the window, or the first of a new one.
FastRetry ==
    /\ main = "wait" /\ trigger
    /\ trigger' = FALSE
    /\ fast' \in {1, fast + 1}
    /\ IF fast' > FastLimit
       THEN main' = "exit" /\ state' = "gaveup"
       ELSE main' = "dial" /\ UNCHANGED state
    /\ UNCHANGED <<env, run, keys, gen, copier, out>>

Dial ==
    /\ main = "dial"
    /\ \/ net /\ alive' = TRUE /\ main' = "flushecho"
       \/ ~net /\ main' = "wait" /\ UNCHANGED alive
    /\ UNCHANGED <<net, drops, state, run, keys, gen, copier, trigger, fast, out>>

FlushLockEcho ==
    /\ main = "flushecho" /\ EchoFree
    /\ main' = "flushring"
    /\ UNCHANGED <<env, state, run, keys, gen, copier, trigger, fast, out>>

FlushLockRing ==
    /\ main = "flushring"
    /\ main' = "flush"
    /\ UNCHANGED <<env, state, run, keys, gen, copier, trigger, fast, out>>

FlushNothing ==
    /\ main = "flush" /\ ring = <<>>
    /\ main' = "connect"
    /\ UNCHANGED <<env, state, run, keys, gen, copier, trigger, fast, out>>

\* Not the code: the ring is cleared when nobody reads, too.
FlushRingAnyway ==
    /\ main = "flush" /\ ring # <<>>
    /\ (\E g \in Sessions : HandTo(g, ring)) \/ UNCHANGED copier
    /\ ring' = <<>>
    /\ main' = "connect"
    /\ UNCHANGED <<env, state, run, hand, typed, fate, gen, trigger, fast, out>>

\* pipeW.Write(ringBuf) under both locks, before the next session exists.
FlushRing ==
    /\ main = "flush" /\ ring # <<>>
    /\ \E g \in Sessions : HandTo(g, ring)
    /\ ring' = <<>>
    /\ main' = "connect"
    /\ UNCHANGED <<env, state, run, hand, typed, fate, gen, trigger, fast, out>>

Connected ==
    /\ main = "connect"
    /\ state' = "connected"
    /\ gen' = gen + 1
    /\ main' = "start"
    /\ UNCHANGED <<env, run, keys, copier, trigger, fast, out>>

-----------------------------------------------------------------------------
(* The copiers, from golang.org/x/crypto/ssh, and the network.             *)

\* Not the code: a copier writes to whatever session is attached.
OpenAny(g) == main = "attached"
Open(g) == g = gen /\ main = "attached"

\* To the server, or into a connection that is dead and not yet given up.
Forward(g) ==
    /\ copier[g].pc = "holding" /\ Open(g)
    /\ copier' = [copier EXCEPT ![g] = [pc |-> "reading", chunk |-> <<>>]]
    /\ IF alive
       THEN /\ out' = out \o copier[g].chunk
            /\ End(KeysOf(copier[g].chunk), "received")
       ELSE End(KeysOf(copier[g].chunk), "wire") /\ UNCHANGED out
    /\ UNCHANGED <<env, state, main, run, hand, typed, ring, gen, trigger, fast>>

\* The session is over: the write fails, the bytes are gone, the copier ends.
Swallow(g) ==
    /\ copier[g].pc = "holding" /\ ~Open(g)
    /\ copier' = [copier EXCEPT ![g] = [pc |-> "gone", chunk |-> <<>>]]
    /\ fate' = [k \in Keys |-> IF k \notin KeysOf(copier[g].chunk) THEN fate[k]
                               ELSE IF fate[k] = "buffered" THEN "swallowed" ELSE "cut"]
    /\ UNCHANGED <<env, state, main, run, hand, typed, ring, gen, trigger, fast, out>>

ConnectionLost ==
    /\ alive /\ drops < MaxDrops
    /\ alive' = FALSE /\ net' \in BOOLEAN
    /\ drops' = drops + 1
    /\ UNCHANGED <<state, main, run, keys, gen, copier, trigger, fast, out>>

NetworkBack ==
    /\ ~net
    /\ net' = TRUE
    /\ UNCHANGED <<alive, drops, state, main, run, keys, gen, copier, trigger, fast, out>>

-----------------------------------------------------------------------------
Buffer  == LoadState \/ LockEcho \/ DirectWrite \/ BufferKey \/ EchoKey
Flush   == FlushLockEcho \/ FlushLockRing \/ FlushNothing \/ FlushRing
Attach  == StartSession \/ StartFails \/ SessionEnds
Reconnect == EnterReconnecting \/ TimerFires \/ FastRetry \/ Dial \/ Flush \/ Connected
Copy(g) == Forward(g) \/ Swallow(g)

Next ==
    \/ ReadKey \/ Buffer \/ Attach \/ RemoteExits \/ Reconnect
    \/ (\E g \in Sessions : Copy(g))
    \/ ConnectionLost \/ NetworkBack

\* The Go scheduler runs every goroutine that can run, the timer of the
\* backoff fires, keepalive notices a dead connection and the network comes
\* back; nobody has to type.
Spec ==
    /\ Init /\ [][Next]_vars
    /\ WF_vars(Buffer) /\ WF_vars(Attach) /\ WF_vars(Reconnect) /\ WF_vars(NetworkBack)
    /\ \A g \in Sessions : WF_vars(Copy(g))

-----------------------------------------------------------------------------
(* Properties.                                                             *)

Places == {"start", "attached", "ended", "wait", "dial", "flushecho", "flushring",
           "flush", "connect", "exit"}

\* Every variable stays in its type and the ring within its capacity; Run
\* holds a key exactly while it has one to pass on.
StdinTypeOK ==
    /\ net \in BOOLEAN /\ alive \in BOOLEAN /\ drops \in 0..MaxDrops
    /\ state \in {"connected", "reconnecting", "gaveup"}
    /\ main \in Places
    /\ run \in {"read", "load", "lock", "write", "ring", "echo"}
    /\ typed \in 0..MaxKeys /\ hand \in {0, typed}
    /\ (hand = 0) <=> (run \in {"read", "echo"})
    /\ Len(ring) <= Capacity /\ KeysOf(ring) \subseteq 1..typed
    /\ gen \in Sessions /\ gen <= drops
    /\ trigger \in BOOLEAN /\ fast \in 0..FastLimit + 1

\* What the server receives is a subsequence of what was typed: no key twice
\* and none before an earlier one, however the direct writes, the flushes and
\* the copiers of several sessions interleave.
OrderKept == \A i, j \in DOMAIN out : i < j => out[i] < out[j]

\* A key that was typed and has not ended is in one place exactly: in Run's
\* hand, in the ring or with one copier.
Accounted ==
    \A k \in 1..typed :
        fate[k] \in {"open", "buffered"} <=>
            \/ hand = k
            \/ k \in KeysOf(ring)
            \/ \E g \in Sessions : k \in KeysOf(copier[g].chunk)

\* A lost connection is followed by a new session, or by the end of the
\* client, unless no copier is left to take what Flush or Run writes to the
\* pipe: then the client hangs.
NobodyReads == \A g \in Sessions : copier[g].pc \in {"none", "gone"}
ReconnectEnds == main = "ended" ~> main \in {"attached", "exit"} \/ NobodyReads

\* The README says "reconnects by itself, back within 30 seconds, no input
\* lost", and session.go that the next attach reads what Flush wrote, "no
\* character lost, none out of order".  No key that was kept in the ring is
\* taken by the copier of a session that is over.  It does not hold of the code.
InputKept == \A k \in Keys : fate[k] # "swallowed"
=============================================================================
