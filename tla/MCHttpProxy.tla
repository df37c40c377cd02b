---------------------------- MODULE MCHttpProxy -----------------------------
(* Small instances of HttpProxy.                                           *)
EXTENDS HttpProxy

\* Nothing reads what has been written to a connection, and ReplyIsOwn looks at
\* it for connections that share their address with nobody.  Once one is
\* closed nothing more is written to it, so that it has been checked.
Watched == open \ shared
View == <<handler, cons, session, posted, device, shared,
          [c \in Watched |-> received[c]], {j \in holed : j.conn \in Watched}>>
=============================================================================
