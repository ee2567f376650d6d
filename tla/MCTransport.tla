---- MODULE MCTransport ----
(* Transport with up to two calls in flight and an idle timeout of two ticks. *)
EXTENDS Transport
====
