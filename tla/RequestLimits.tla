---------------------------- MODULE RequestLimits --------------------------
(***************************************************************************)
(* The middleware that bounds the body of a request: it reads the whole    *)
(* body before the application runs, refuses one that is declared or found *)
(* too large, and replays what it has read.  A body is a number of bytes   *)
(* that arrives in pieces; the client may declare any length, or leave in  *)
(* the middle.                                                             *)
(***************************************************************************)
EXTENDS Naturals, Sequences

CONSTANTS
    MaxRequestSize,
    PieceSizes,       \* the sizes a piece of a body may have
    MaxReceived   \* bound: no client sends more than this

ASSUME LimitAssumption ==
    MaxRequestSize \in Nat /\ MaxReceived \in Nat /\ PieceSizes \subseteq Nat

Undeclared == MaxReceived + 1

VARIABLES
    phase,      \* arriving, reading, replaying, serving, refused
    declared,   \* the Content-Length, or Undeclared
    received,   \* bytes read so far
    buffered,   \* bytes held for the application
    whole,      \* the last piece has been read
    channel,    \* what the client does next: sends, waits, is gone
    given       \* the bodies the application has been given

limitVars == <<phase, declared, received, buffered, whole, channel, given>>

LimitInit ==
    /\ phase = "arriving" /\ declared = Undeclared /\ received = 0 /\ buffered = 0
    /\ whole = FALSE /\ channel = "sends" /\ given = <<>>

\* A declared length above the limit is refused before a byte is read.
Declare ==
    /\ phase = "arriving"
    /\ declared' \in 0..Undeclared
    /\ phase' = IF declared' # Undeclared /\ declared' > MaxRequestSize THEN "refused" ELSE "reading"
    /\ UNCHANGED <<received, buffered, whole, channel, given>>

\* The bytes read before a piece decide, not those with it.
ReadPieceLate(size, more) ==
    /\ phase = "reading" /\ channel = "sends" /\ received + size <= MaxReceived
    /\ received' = received + size
    /\ IF received > MaxRequestSize
       THEN phase' = "refused" /\ buffered' = 0
       ELSE /\ buffered' = buffered + size
            /\ phase' = IF more THEN "reading" ELSE "replaying"
    /\ whole' = ~more
    /\ channel' = IF more THEN "sends" ELSE "waits"
    /\ UNCHANGED <<declared, given>>

\* A piece is added up before it is kept; what is over the limit drops it all.
ReadPiece(size, more) ==
    /\ phase = "reading" /\ channel = "sends" /\ received + size <= MaxReceived
    /\ received' = received + size
    /\ IF received' > MaxRequestSize
       THEN phase' = "refused" /\ buffered' = 0
       ELSE /\ buffered' = buffered + size
            /\ phase' = IF more THEN "reading" ELSE "replaying"
    /\ whole' = ~more
    /\ channel' = IF more THEN "sends" ELSE "waits"
    /\ UNCHANGED <<declared, given>>

\* A client that leaves in the middle hands the application what there is.
ReadDisconnect ==
    /\ phase = "reading" /\ channel = "gone" /\ phase' = "replaying"
    /\ UNCHANGED <<declared, received, buffered, whole, channel, given>>

ClientLeaves ==
    /\ channel # "gone" /\ channel' = "gone"
    /\ UNCHANGED <<phase, declared, received, buffered, whole, given>>

\* The first receive of the application gets the body, the later ones wait for
\* the disconnect.
Replay ==
    /\ phase = "replaying" /\ given' = Append(given, buffered) /\ phase' = "serving"
    /\ UNCHANGED <<declared, received, buffered, whole, channel>>

LimitNext ==
    \/ Declare \/ ReadDisconnect \/ ClientLeaves \/ Replay
    \/ \E size \in PieceSizes, more \in BOOLEAN : ReadPiece(size, more)

LimitSpec == LimitInit /\ [][LimitNext]_limitVars

---------------------------------------------------------------------------
\* The application gets a body at most once, never one over the limit, and gets
\* it in full unless the client left before its last piece; whatever the client
\* declared, no more than the limit is held.
BodyIsBounded ==
    /\ buffered <= MaxRequestSize
    /\ \A i \in DOMAIN given : i = 1 /\ given[i] = received
    /\ (given # <<>> /\ channel # "gone") => whole
=============================================================================
