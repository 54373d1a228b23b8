------------------------------ MODULE Envelopes ------------------------------
(***************************************************************************)
(* The frames of a request and of its reply: class zmsg of                 *)
(* src/src/zmq/zmsg.hpp, and the envelopes the client, the broker and the  *)
(* workers put on and take off on the way.  Pure operators; a message is   *)
(* the sequence of its frames.                                             *)
(*                                                                         *)
(* A ROUTER socket puts the identity of the sender before what it receives *)
(* and takes the first frame off what it sends, to find the addressee.     *)
(*                                                                         *)
(* A frame is one value here, but for its bytes at the end of the module:  *)
(* encode_uuid and decode_uuid change frames of 17 and of 33 bytes, and no *)
(* frame of the application is of those.                                   *)
(***************************************************************************)
EXTENDS Sequences, Integers

MdpClient == "MDPC01"
MdpWorker == "MDPW01"
Service == "LIST_MANAGEMENT"

Delimiter == ""

(* What is left after n calls of pop_front. *)
Popped(m, n) == SubSeq(m, n + 1, Len(m))

(* zmsg::wrap. *)
Wrap(address, delimiter, m) == <<address, delimiter>> \o m

(* zmsg::unwrap: what it returns ... *)
Addressee(m) == Head(m)

(* Fault: the delimiter stays. *)
UnwrapAddressOnly(m) == Tail(m)

(* ... and what it leaves. *)
Unwrap(m) ==
    IF Len(m) > 1 /\ m[2] = Delimiter THEN Popped(m, 2) ELSE Tail(m)

RouterIn(identity, m) == <<identity>> \o m
RouterOut(m) == Tail(m)

-----------------------------------------------------------------------------
(* mdcli::send. *)
ClientSends(service, request, body) == <<Delimiter, MdpClient, service, request>> \o body

(* A request: its type, the url, and for some types more.  What it asks    *)
(* for and what is answered are one frame each here.                       *)
RequestFrames(url) == ClientSends(Service, "request", <<url, "list">>)

HeartbeatFrames == ClientSends("HEARTBEAT", Delimiter, <<>>)

(* The broker takes a message of a client (start_brokering) and reads the  *)
(* service ...                                                             *)
ServiceOf(m) == Popped(m, 2)[2]

(* ... and client_process keeps the rest under the return address.         *)
Queued(m) == Wrap(Head(m), Delimiter, Popped(m, 4))

(* worker_send with the command REQUEST. *)
BrokerSends(worker, m) ==
    RouterOut(Wrap(worker, Delimiter, <<MdpWorker, "REQUEST">> \o m))

(* mdwrk::recv, REQUEST: m_reply_to, and the message handled or passed on  *)
(* once its type and url were read and put back.                           *)
ReplyTo(m) == Addressee(Popped(m, 3))
Work(m) == <<Delimiter>> \o Unwrap(Popped(m, 3))

(* send_to_worker with RECV_WORK, and mdwrk::recv there. *)
PassedOn(replyTo, work) == <<Delimiter, MdpWorker, "RECV_WORK">> \o Wrap(replyTo, Delimiter, work)
PulledWork(m) == Unwrap(Popped(m, 3))

(* mdwrk::handle_request reads the type, the url and the rest.             *)
Handle(work) ==
    IF Len(work) >= 3 /\ work[1] = Delimiter /\ work[2] = "request" THEN "reply" ELSE "unknown"

(* The reply of a worker: mdwrk::recv, send_to_broker. *)
WorkerReplies(replyTo, text) ==
    <<Delimiter, MdpWorker, "REPLY">> \o Wrap(replyTo, Delimiter, <<text>>)

(* worker_process, REPLY: what the broker's ROUTER sends ... *)
Forwarded(m) ==
    LET reply == Popped(m, 4) IN
    Wrap(Addressee(reply), Delimiter, Wrap(MdpClient, Service, Unwrap(reply)))

(* ... and mdcli::recv: the assertions it makes, and what it returns.      *)
WellFormed(m) == Len(m) >= 4 /\ m[1] = Delimiter

Received(m) == IF m[2] = MdpClient THEN Popped(m, 3) ELSE Popped(m, 2)

-----------------------------------------------------------------------------
(* zmsg::recv and zmsg::send byte by byte: a binary identity, 17 bytes the *)
(* first of which is 0, is read as '@' and 32 hexadecimal digits, and a    *)
(* frame of 33 bytes that starts with '@' is sent as 17 bytes.             *)
Byte == 0 .. 255
AtSign == 64

(* hex_char, *)
Digit(n) == IF n < 10 THEN 48 + n ELSE 55 + n

(* and hex_to_bin, of the low seven bits. *)
HexToBin(c) ==
    LET low == c % 128 IN
    IF low \in 48 .. 57 THEN low - 48
    ELSE IF low \in 65 .. 70 THEN low - 55
    ELSE IF low \in 97 .. 102 THEN low - 87
    ELSE -1

EncodeUuid(data) ==
    [k \in 1 .. 33 |->
        IF k = 1 THEN AtSign
        ELSE IF k % 2 = 0 THEN Digit(data[k \div 2 + 1] \div 16)
        ELSE Digit(data[k \div 2 + 1] % 16)]

DecodeUuid(uuidstr) ==
    [k \in 1 .. 17 |->
        IF k = 1 THEN 0
        ELSE (16 * HexToBin(uuidstr[2 * k - 2]) + HexToBin(uuidstr[2 * k - 1])) % 256]
=============================================================================
