------------------------------ MODULE MCProcess ------------------------------
(* A node's process with --chaos and without, two requests that toggle       *)
(* chaos, two loops, and a goroutine for the page's other requests.          *)
EXTENDS Process

CONSTANTS m, l1, l2, h1
=============================================================================
