------------------------------ MODULE Handshake ------------------------------
(***************************************************************************)
(* How a session gets the MiSTer and keeps it: the core probe, the INIT    *)
(* handshake, the drainer and the keepalive that Plane.Run drives over the *)
(* one UDP socket which all sessions share (internal/groovynet and         *)
(* internal/dataplane), against the receiver of internal/fakemister.       *)
(*                                                                         *)
(* Datagrams stay in order and may be lost.  Time counts half seconds, the *)
(* keepalive's poll; a handshake takes none.  Whatever is not lost arrives *)
(* within the probe's timeout and within the last attempt's, but may       *)
(* outlast an earlier attempt.                                             *)
(***************************************************************************)
EXTENDS Naturals, Sequences

CONSTANTS
    Configured,     \* the codecs of one session after the other
    Cores,          \* the cores the user may load
    Attempts,       \* of SendInitAwaitACKWithRetry
    KeepaliveIdle,  \* defaultKeepaliveIdle
    IdleLimit,      \* the receiver's idle timeout
    Losses,         \* bound on the datagrams lost
    Window          \* bound on the replies under way when a field is sent

(* A codec that is unset or auto stands for raw or lz4; the keepalive      *)
(* polls before a session would count as silent.                           *)
ASSUME HandshakeAssumption ==
    /\ Configured \in Seq({"raw", "lz4", "nlc"})
    /\ KeepaliveIdle \in Nat \ {0} /\ IdleLimit \in Nat /\ KeepaliveIdle <= IdleLimit

VARIABLES
    plane,   \* the session: where Run is, its number, attempt, core and codec
    drains,  \* is a drainer reading the socket
    up,      \* datagrams on their way to the receiver
    down,    \* and on their way back
    inbox,   \* the socket's receive buffer
    rx,      \* the receiver: core, session, codec, what it expects, idle time
    age,     \* time since lastSendUnix
    polled,  \* did the keepalive poll since the last tick
    sent,    \* the kind of datagram written last
    dropped  \* datagrams lost so far

wire == <<up, down, inbox>>
hsVars == <<plane, drains, wire, rx, age, polled, sent, dropped>>

Quiet     == up = <<>> /\ down = <<>> /\ inbox = <<>>
Roomy     == up = <<>> /\ Len(down) + Len(inbox) < Window
In(where) == plane.at = where
To(where) == plane' = [plane EXCEPT !.at = where]

HsInit ==
    /\ plane = [at |-> "done", n |-> 0, attempt |-> 0, core |-> "unknown", codec |-> "raw"]
    /\ drains = FALSE /\ up = <<>> /\ down = <<>> /\ inbox = <<>>
    /\ rx \in [core : Cores, session : {0}, codec : {"raw"}, reads : {"command"}, idle : {0}, misread : {FALSE}]
    /\ age = KeepaliveIdle /\ polled = FALSE /\ sent = "nothing" /\ dropped = 0

(* Send, SendPayload and SendIfIdle stamp lastSendUnix when they wrote.    *)
Sends(packet) == up' = Append(up, packet) /\ age' = 0 /\ sent' = packet.kind
Silent        == UNCHANGED <<up, age, sent>>
Packet(kind)  == [kind |-> kind, session |-> plane.n, codec |-> plane.codec]

-----------------------------------------------------------------------------
(* Plane.Run: the probe and the handshake.                                 *)

(* flushStaleDatagrams *)
FlushStale == inbox' = <<>>

(* The next session starts when Run of the last one has returned.           *)
Done == plane.at = "done"

Probe ==
    /\ Done /\ plane.n < Len(Configured)
    /\ plane' = [plane EXCEPT !.at = "probing", !.n = @ + 1, !.attempt = 0]
    /\ FlushStale
    /\ Sends([kind |-> "version", session |-> plane.n + 1, codec |-> plane.codec])
    /\ UNCHANGED <<drains, down, rx, polled, dropped>>

(* ResolveCodec, for a core the probe has settled. *)
Resolve(configured, core) ==
    IF configured = "nlc" /\ core # "nlc" THEN "lz4" ELSE configured

(* The slip asks only the first time. *)
KnownOnce(core)   == IF plane.core = "unknown" THEN core ELSE plane.core
KnownAnew(core)   == core

Detects(core) ==
    plane' = [plane EXCEPT !.at = "probed", !.core = KnownAnew(core),
                           !.codec = Resolve(Configured[plane.n], KnownAnew(core))]

(* ProbeVersion: the first one-byte datagram answers. *)
VersionRead ==
    /\ In("probing") /\ inbox # <<>>
    /\ inbox' = Tail(inbox)
    /\ IF Head(inbox).kind = "version" THEN Detects(Head(inbox).core) ELSE UNCHANGED plane
    /\ UNCHANGED <<drains, up, down, rx, age, polled, sent, dropped>>

ProbeTimesOut ==
    /\ In("probing") /\ Quiet /\ Detects("groovy")
    /\ UNCHANGED <<drains, wire, rx, age, polled, sent, dropped>>

(* SendInitAwaitACK *)
SendInit ==
    /\ \/ In("probed")
       \/ In("waiting") /\ plane.attempt < Attempts /\ inbox = <<>>   \* the attempt timed out
    /\ plane' = [plane EXCEPT !.at = "waiting", !.attempt = @ + 1]
    /\ FlushStale /\ Sends(Packet("init"))
    /\ UNCHANGED <<drains, down, rx, polled, dropped>>

(* Any status reply will do; other datagrams are skipped. *)
AckRead ==
    /\ In("waiting") /\ inbox # <<>>
    /\ inbox' = Tail(inbox)
    /\ IF Head(inbox).kind = "ack" THEN To("acknowledged") ELSE UNCHANGED plane
    /\ polled' = TRUE
    /\ UNCHANGED <<drains, up, down, rx, age, sent, dropped>>

GiveUp ==
    /\ In("waiting") /\ plane.attempt = Attempts /\ Quiet
    /\ To("failed")
    /\ UNCHANGED <<drains, wire, rx, age, polled, sent, dropped>>

-----------------------------------------------------------------------------
(* Plane.Run: the session.                                                 *)

(* SWITCHRES, and the drainer. *)
Switchres ==
    /\ In("acknowledged")
    /\ To("session") /\ drains' = TRUE
    /\ Sends(Packet("switchres"))
    /\ UNCHANGED <<down, inbox, rx, polled, dropped>>

(* sendField and sendAudio: Send, and then SendPayload. *)
SendHeader ==
    /\ In("session") /\ Roomy
    /\ To("sending") /\ Sends(Packet("header"))
    /\ UNCHANGED <<drains, down, inbox, rx, polled, dropped>>

SendPayload ==
    /\ In("sending")
    /\ To("session") /\ Sends(Packet("payload"))
    /\ UNCHANGED <<drains, down, inbox, rx, polled, dropped>>

(* holdField: only raw sessions have a duplicate to send.                  *)
RawOnly == plane.codec = "raw"

SendDup ==
    /\ In("session") /\ Roomy /\ RawOnly
    /\ Sends(Packet("dup"))
    /\ UNCHANGED <<plane, drains, down, inbox, rx, polled, dropped>>

(* The drainer takes whatever arrives. *)
Drain ==
    /\ drains /\ inbox # <<>> /\ inbox' = Tail(inbox)
    /\ UNCHANGED <<plane, drains, up, down, rx, age, polled, sent, dropped>>

(* The session ends with CLOSE, or because SWITCHRES could not be sent;    *)
(* the deferred calls stop the drainer and the keepalive.                  *)
Close ==
    \/ /\ In("session") /\ To("closed") /\ Sends(Packet("close"))
       /\ UNCHANGED <<drains, down, inbox, rx, polled, dropped>>
    \/ /\ In("acknowledged") /\ To("closed") /\ Silent
       /\ UNCHANGED <<drains, down, inbox, rx, polled, dropped>>

Return ==
    \/ /\ In("closed") /\ To("done") /\ drains' = FALSE
       /\ UNCHANGED <<wire, rx, age, polled, sent, dropped>>
    \/ /\ In("failed") /\ To("done")
       /\ UNCHANGED <<drains, wire, rx, age, polled, sent, dropped>>

(* runKeepalive and SendIfIdle.  The slip: headers leave no stamp.         *)
StampedByPayload == age >= KeepaliveIdle \/ sent # "payload"
LongSilent       == age >= KeepaliveIdle

HoldsBack == Silent

Alive == plane.at \in {"acknowledged", "session", "sending", "closed"}

Keepalive ==
    /\ Alive /\ ~polled /\ polled' = TRUE
    /\ IF LongSilent THEN Sends(Packet("status")) ELSE HoldsBack
    /\ UNCHANGED <<plane, drains, down, inbox, rx, dropped>>

-----------------------------------------------------------------------------
(* The receiver and the network.                                           *)

(* Listener.respond.  A session counts from its INIT to CLOSE or reaping.  *)
Reply(p) ==
    IF p.kind = "version" THEN <<[kind |-> "version", core |-> rx.core]>>
    ELSE IF \/ p.kind \in {"status", "init"}
            \/ p.kind = "switchres" /\ rx.core = "nlc" /\ rx.session # 0
            \/ p.kind \in {"payload", "dup"} /\ rx.session # 0
    THEN <<[kind |-> "ack"]>> ELSE <<>>

(* observeArrival *)
Reaped == rx.idle > IdleLimit

(* RunWithFields: a header is followed by its payload, and a session with  *)
(* compression has no duplicate.                                           *)
Misreads(p) ==
    \/ rx.reads = "payload" /\ p.kind # "payload"
    \/ rx.session # 0 /\ p.kind = "dup" /\ rx.codec # "raw"

Takes(p) ==
    [rx EXCEPT !.idle = 0,
               !.session = CASE p.kind = "init" -> p.session
                             [] p.kind = "close" -> 0
                             [] OTHER -> IF Reaped THEN 0 ELSE @,
               !.codec   = IF p.kind = "init" THEN p.codec ELSE @,
               !.reads   = IF p.kind = "header" THEN "payload" ELSE "command",
               !.misread = @ \/ Misreads(p)]

Arrives ==
    /\ up # <<>> /\ up' = Tail(up)
    /\ rx' = Takes(Head(up))
    /\ down' = down \o Reply(Head(up))
    /\ UNCHANGED <<plane, drains, inbox, age, polled, sent, dropped>>

ReplyArrives ==
    /\ down # <<>> /\ down' = Tail(down) /\ inbox' = Append(inbox, Head(down))
    /\ UNCHANGED <<plane, drains, up, rx, age, polled, sent, dropped>>

(* Fields that get lost are FieldDelta's. *)
Loses ==
    /\ dropped < Losses /\ dropped' = dropped + 1
    /\ \/ up # <<>> /\ Head(up).kind \notin {"header", "payload"}
          /\ up' = Tail(up) /\ UNCHANGED down
       \/ down # <<>> /\ down' = Tail(down) /\ UNCHANGED up
    /\ UNCHANGED <<plane, drains, inbox, rx, age, polled, sent>>

(* Half a second of a session; between sessions the user may load another  *)
(* core.                                                                   *)
HalfSecond ==
    /\ In("session") /\ Quiet /\ polled
    /\ polled' = FALSE /\ age' = age + 1
    /\ rx' = [rx EXCEPT !.idle = @ + 1]
    /\ UNCHANGED <<plane, drains, wire, sent, dropped>>

LoadCore ==
    /\ Done /\ Quiet
    /\ rx' \in [core : Cores \ {rx.core}, session : {0}, codec : {"raw"}, reads : {"command"},
                idle : {0}, misread : {rx.misread}]
    /\ UNCHANGED <<plane, drains, wire, age, polled, sent, dropped>>

Run == \/ Probe \/ VersionRead \/ ProbeTimesOut \/ SendInit \/ AckRead \/ GiveUp \/ Switchres
       \/ SendHeader \/ SendPayload \/ SendDup \/ Close \/ Return

HsNext == Run \/ Drain \/ Keepalive \/ Arrives \/ ReplyArrives \/ Loses \/ HalfSecond \/ LoadCore

HsSpec == HsInit /\ [][HsNext]_hsVars

-----------------------------------------------------------------------------
(* A session that streams has the receiver: the receiver took this         *)
(* session's INIT, no earlier one's, and can decode its codec.  A stale    *)
(* status reply never stands for the ACK, because the probe's answer, or   *)
(* its timeout, comes after everything the last session left under way.    *)
SessionIsTaken ==
    plane.at \in {"acknowledged", "session", "sending"} /\ dropped = 0 =>
        /\ rx.session = plane.n /\ rx.codec = plane.codec
        /\ rx.codec = "nlc" => rx.core = "nlc"

AckIsGenuine ==
    In("acknowledged") => rx.session = plane.n /\ (rx.codec = "nlc" => rx.core = "nlc")

(* A receiver that answers is never given up.                              *)
OnlyLossFails == In("failed") => dropped > 0

(* Nothing comes between a header and its payload, and nothing that a      *)
(* session with compression cannot take is sent to it.                     *)
NeverMisread == dropped = 0 => ~rx.misread

(* However long there is nothing to show, the receiver does not reap the   *)
(* session as long as the keepalives arrive.                               *)
StaysAwake == In("session") /\ dropped = 0 => ~Reaped

(* A session that streams has the receiver, and a receiver that answers is *)
(* never given up.                                                         *)
HandshakeIsGenuine == AckIsGenuine /\ SessionIsTaken /\ OnlyLossFails

(* The receiver understands all it gets, and never waits too long for it.  *)
ReceiverKeepsUp == NeverMisread /\ StaysAwake
=============================================================================
