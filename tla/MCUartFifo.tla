----------------------------- MODULE MCUartFifo -----------------------------
(* The receive ring of UartFifo with a buffer of four cells.               *)
EXTENDS UartFifo

=============================================================================
