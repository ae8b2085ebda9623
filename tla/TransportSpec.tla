---------------------------- MODULE TransportSpec ----------------------------
(***************************************************************************)
(* What parsing a <transport xmlns='urn:xmpp:jingle:transports:ice-udp:1'/> *)
(* element promises, stated over the whole element at once: it is          *)
(* accepted when it is a transport element, every <candidate/> child       *)
(* parses, there is at most one <fingerprint/> child and it parses, and    *)
(* the first <web-socket/> child, if any, parses.  The result keeps the    *)
(* attributes, the candidates in document order, the fingerprint and the   *)
(* first web-socket.  One step takes the element to its result.            *)
(***************************************************************************)
EXTENDS Naturals, Sequences

CONSTANTS
    Inputs,         \* the elements that may be parsed
    None            \* the absent Option

VARIABLES
    elem,           \* the element given to Transport::try_from
    result          \* None until parsed, then [ok, transport]

ChildrenOf(e, kind) == SelectSeq(e.children, LAMBDA c : c.kind = kind)

Vals(cs) == [k \in DOMAIN cs |-> cs[k].val]

Accepted(e) ==
    LET fps == ChildrenOf(e, "fingerprint")
        wss == ChildrenOf(e, "web-socket")
    IN  /\ e.name = "transport"
        /\ \A c \in {e.children[k] : k \in DOMAIN e.children} :
              c.kind \in {"candidate", "fingerprint"} => c.ok
        /\ Len(fps) <= 1
        /\ wss # <<>> => wss[1].ok

ParseResult(e) ==
    LET fps == ChildrenOf(e, "fingerprint")
        wss == ChildrenOf(e, "web-socket")
    IN  IF ~Accepted(e) THEN [ok |-> FALSE, transport |-> None]
        ELSE [ok |-> TRUE,
              transport |-> [pwd         |-> e.pwd,
                             ufrag       |-> e.ufrag,
                             candidates  |-> Vals(ChildrenOf(e, "candidate")),
                             fingerprint |-> IF fps = <<>> THEN None ELSE fps[1].val,
                             webSocket   |-> IF wss = <<>> THEN None ELSE wss[1].val]]

Init ==
    /\ elem \in Inputs
    /\ result = None

Parse ==
    /\ result = None
    /\ result' = ParseResult(elem)
    /\ UNCHANGED elem

\* A parse that has begun returns.
Spec == Init /\ [][Parse]_<<elem, result>> /\ WF_<<elem, result>>(Parse)

=============================================================================
