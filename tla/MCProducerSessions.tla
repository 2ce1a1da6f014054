------------------------ MODULE MCProducerSessions ------------------------
(* Two instances of one producer, the second with a newer epoch, and        *)
(* another producer.                                                        *)
EXTENDS ProducerSessions, TLC

CONSTANTS p1, p2

Rivals == {<<p1, 0>>, <<p1, 1>>, <<p2, 0>>}
LastOnes == <<p1, 0>> :> "post_close" @@ <<p1, 1>> :> "close" @@ <<p2, 0>> :> "post"
=============================================================================
