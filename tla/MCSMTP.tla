------------------------------- MODULE MCSMTP -------------------------------
(* Instances of SMTP for TLC: what the users type. *)
EXTENDS SMTP

L(k, a) == [k |-> k, a |-> a]
One     == {"s1"}
Two     == {"s1", "s2"}
Ann     == {"ann@"}

(* A user who writes mails.                                                *)
Mails ==
  {L("HELO", Word), L("DATA", Nothing)} \cup {L("MAIL FROM:", a) : a \in {"ann@"}}
  \cup {L("RCPT TO:", a) : a \in {"ann@"}}

Lister == Mails \cup {L("LIST", "ann@")}

(* Everything the server knows.                                            *)
All ==
  Mails \cup {L("HELO", Nothing), L("QUIT", Nothing), L("text", Nothing), Dot}
  \cup {L(k, a) : k \in {"MAIL FROM:", "RCPT TO:", "LIST", "GET_MAIL"},
                  a \in {"ann@", Word, Nothing}}

Text    == {L("text", Nothing)}
Plain   == {L("text", Nothing), L("LIST", "ann@")}
Odd     == {L("text", Nothing), L("HELO", Word), L("RCPT TO:", Word), L("ID:", Nothing),
            L("Date:", Nothing), L("", Nothing), L("DATA", Nothing), L("LIST", "ann@")}
=============================================================================
