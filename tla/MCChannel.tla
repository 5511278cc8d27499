----------------------------- MODULE MCChannel ------------------------------
(* The server's end of a connection and the client's: the handler writes the *)
(* full list, larger than the buffers, while the updater writes two updates. *)
EXTENDS Channel, TLC

CONSTANTS handler, updater

ListAndUpdates == (handler :> <<4>>) @@ (updater :> <<1, 2>>)
=============================================================================
