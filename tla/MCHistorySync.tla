--------------------------- MODULE MCHistorySync ---------------------------
(* Model-checking instances of HistorySync: a reader whose storage fails and *)
(* who recovers messages, and a peer who has them.  One kind of message is   *)
(* for both, the other for the peer alone.  To catch up the reader is alone.  *)
EXTENDS HistorySync

CONSTANTS reader, peer

MCBrowsers == {reader, peer}
MCReader == {reader}
MCAudiences == {{reader, peer}, {peer}}
MCAlone == {{reader}, {}}
=============================================================================
