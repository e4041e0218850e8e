------------------------------- MODULE MCUdc --------------------------------
(* Two IN endpoints beside ep0, so that they compete for fifo_req. *)
EXTENDS Udc

MCEndpoints == <<"ep0", "in1", "in2">>
=============================================================================
