------------------------- MODULE MCJingleSdpSession -------------------------
(* JingleSdpSession instantiated with the shared Jingle inputs. *)
EXTENDS JingleSdpSession, JingleTestData

SessionOffers == MCOffers \cup TemplateOffers

=============================================================================
