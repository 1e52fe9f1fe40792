--------------------------- MODULE MCSafeTransport --------------------------
(***************************************************************************)
(* Two fetches on one session, the first over https; an allowed address, a *)
(* prohibited one and an answer that is no address.                        *)
(***************************************************************************)
EXTENDS SafeTransport

MCFetch     == {"f1", "f2"}
MCSecure    == {"f1"}
MCEndpoint  == {"public", "private", "garbage"}
MCAllowed   == {"public"}
MCMalformed == {"garbage"}

(* A call ends cleanly: its connection is released, and work that was not  *)
(* over at the deadline is no success, however late the timer: see         *)
(* ConnectionsReleased and LateIsNeverSuccess of SafeTransport.            *)
CallsEndCleanly == ConnectionsReleased /\ LateIsNeverSuccess
=============================================================================
