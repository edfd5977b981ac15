------------------------ MODULE MCNotificationOutbox ------------------------
(* A small instance of NotificationOutbox for TLC.                         *)
EXTENDS NotificationOutbox

CONSTANTS e1, e2, c1, c2, w1, w2
=============================================================================
