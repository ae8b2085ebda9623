--------------------------- MODULE IceUdpTransport ---------------------------
(***************************************************************************)
(* The ICE-UDP transport element of jitsi-xmpp-parsers/src/              *)
(* jingle_ice_udp.rs: Transport::try_from(Element), a loop over the       *)
(* children with one step per child, and From<Transport> for Element.     *)
(*                                                                         *)
(* A child is its kind (its name in its namespace; "other" for anything   *)
(* the loop does not recognise), whether its own try_from succeeds, and   *)
(* the value it parses to.  The loop is shown to implement TransportSpec. *)
(***************************************************************************)
EXTENDS Naturals, Sequences, SequencesExt

CONSTANTS
    Values,         \* values of the pwd and ufrag attributes
    Payloads,       \* what a candidate, fingerprint or web-socket parses to
    MaxChildren,    \* bound on the children of a parsed element
    MaxCandidates,  \* bound on the candidates of a typed Transport
    None            \* the absent Option

ASSUME MaxChildren \in Nat /\ MaxCandidates \in Nat

\* A child element; ok: its own Candidate/Fingerprint/WebSocket::try_from
\* succeeds (a <web-socket/> needs its url attribute).
Kinds == {"candidate", "fingerprint", "web-socket", "other"}
Children == [kind : Kinds, ok : BOOLEAN, val : Payloads]

Elements ==
    [name : {"transport", "other"}, pwd : Values \cup {None},
     ufrag : Values \cup {None}, children : BoundedSeq(Children, MaxChildren)]

\* struct Transport.
Transports ==
    [pwd : Values \cup {None}, ufrag : Values \cup {None},
     candidates : BoundedSeq(Payloads, MaxCandidates),
     fingerprint : Payloads \cup {None}, webSocket : Payloads \cup {None}]

\* A child built from a typed value, which its own try_from accepts.
Built(kind, v) == [kind |-> kind, ok |-> TRUE, val |-> v]

OptionChild(kind, v) == IF v = None THEN <<>> ELSE <<Built(kind, v)>>

\* Variant of ToElement that writes each of pwd and ufrag under the other's
\* name (a mutant checked against SerializedTransportParses).
ToElementSwapped(t) ==
    [name     |-> "transport",
     pwd      |-> t.ufrag,
     ufrag    |-> t.pwd,
     children |-> [k \in DOMAIN t.candidates |-> Built("candidate", t.candidates[k])]
                    \o OptionChild("fingerprint", t.fingerprint)
                    \o OptionChild("web-socket", t.webSocket)]

\* From<Transport> for Element: the attributes (omitted when None), then
\* the candidates, the fingerprint and the web-socket.
ToElement(t) ==
    [name     |-> "transport",
     pwd      |-> t.pwd,
     ufrag    |-> t.ufrag,
     children |-> [k \in DOMAIN t.candidates |-> Built("candidate", t.candidates[k])]
                    \o OptionChild("fingerprint", t.fingerprint)
                    \o OptionChild("web-socket", t.webSocket)]

VARIABLES
    elem,           \* the element being parsed
    sent,           \* the Transport the element was built from, or None
    pc,             \* "start" | "loop" | "done"
    i,              \* index of the next child
    candidates,     \* the loop's local variables
    fingerprint,
    webSocket,
    result          \* None until try_from returns, then [ok, transport]

vars == <<elem, sent, pc, i, candidates, fingerprint, webSocket, result>>
loop == <<i, candidates, fingerprint, webSocket>>

Init ==
    /\ \/ sent = None /\ elem \in Elements
       \/ sent \in Transports /\ elem = ToElement(sent)
    /\ pc = "start"
    /\ i = 1
    /\ candidates = <<>>
    /\ fingerprint = None
    /\ webSocket = None
    /\ result = None

Err == [ok |-> FALSE, transport |-> None]

\* The early return of the loop with the error of a child.
Fail ==
    /\ pc' = "done"
    /\ result' = Err
    /\ UNCHANGED loop

\* elem.is("transport", JINGLE_ICE_UDP) fails.
NotTransport ==
    /\ pc = "start"
    /\ elem.name # "transport"
    /\ result' = Err
    /\ pc' = "done"
    /\ UNCHANGED <<elem, sent, loop>>

Begin ==
    /\ pc = "start"
    /\ elem.name = "transport"
    /\ pc' = "loop"
    /\ UNCHANGED <<elem, sent, loop, result>>

Child == elem.children[i]

AtChild(kind) == pc = "loop" /\ i <= Len(elem.children) /\ Child.kind = kind

ReadCandidate ==
    /\ AtChild("candidate")
    /\ \/ /\ Child.ok
          /\ candidates' = Append(candidates, Child.val)
          /\ i' = i + 1
          /\ UNCHANGED <<pc, fingerprint, webSocket, result>>
       \/ ~Child.ok /\ Fail
    /\ UNCHANGED <<elem, sent>>

\* Variant of ReadFingerprint without the is_some() test, so that a later
\* fingerprint replaces an earlier one (a mutant checked against
\* ImplementsTransportSpec).
ReadFingerprintOverwrites ==
    /\ AtChild("fingerprint")
    /\ \/ /\ Child.ok
          /\ fingerprint' = Child.val
          /\ i' = i + 1
          /\ UNCHANGED <<pc, candidates, webSocket, result>>
       \/ ~Child.ok /\ Fail
    /\ UNCHANGED <<elem, sent>>

\* A second fingerprint is an error, checked before the child is parsed.
ReadFingerprint ==
    /\ AtChild("fingerprint")
    /\ \/ /\ fingerprint = None
          /\ Child.ok
          /\ fingerprint' = Child.val
          /\ i' = i + 1
          /\ UNCHANGED <<pc, candidates, webSocket, result>>
       \/ (fingerprint # None \/ ~Child.ok) /\ Fail
    /\ UNCHANGED <<elem, sent>>

\* A second web-socket is skipped without being parsed.
ReadWebSocket ==
    /\ AtChild("web-socket")
    /\ \/ /\ webSocket # None
          /\ i' = i + 1
          /\ UNCHANGED <<pc, candidates, fingerprint, webSocket, result>>
       \/ /\ webSocket = None
          /\ Child.ok
          /\ webSocket' = Child.val
          /\ i' = i + 1
          /\ UNCHANGED <<pc, candidates, fingerprint, result>>
       \/ webSocket = None /\ ~Child.ok /\ Fail
    /\ UNCHANGED <<elem, sent>>

SkipOther ==
    /\ AtChild("other")
    /\ i' = i + 1
    /\ UNCHANGED <<elem, sent, pc, candidates, fingerprint, webSocket, result>>

Finish ==
    /\ pc = "loop"
    /\ i > Len(elem.children)
    /\ result' = [ok |-> TRUE,
                  transport |-> [pwd |-> elem.pwd, ufrag |-> elem.ufrag,
                                 candidates |-> candidates, fingerprint |-> fingerprint,
                                 webSocket |-> webSocket]]
    /\ pc' = "done"
    /\ UNCHANGED <<elem, sent, loop>>

Next ==
    \/ NotTransport
    \/ Begin
    \/ ReadCandidate
    \/ ReadFingerprint
    \/ ReadWebSocket
    \/ SkipOther
    \/ Finish

\* try_from runs to completion on the calling thread.
Spec == Init /\ [][Next]_vars /\ WF_vars(Next)

-----------------------------------------------------------------------------
(* Properties *)

Abstract == INSTANCE TransportSpec WITH
                Inputs <- Elements \cup {ToElement(t) : t \in Transports}

(***************************************************************************)
(* The child-by-child loop, with its early returns and its different      *)
(* treatment of a repeated fingerprint and a repeated web-socket, returns *)
(* what TransportSpec says of the whole element, and always returns.      *)
(***************************************************************************)
ImplementsTransportSpec == Abstract!Spec

(***************************************************************************)
(* An element built from a Transport by From<Transport> parses back to    *)
(* that same Transport.                                                   *)
(***************************************************************************)
SerializedTransportParses ==
    pc = "done" /\ sent # None => result = [ok |-> TRUE, transport |-> sent]

=============================================================================
