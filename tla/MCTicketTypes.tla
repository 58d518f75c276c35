--------------------------- MODULE MCTicketTypes ---------------------------
(* Two types of one event, a session with two spellings, quantities of two  *)
(* with words of eight, and requests that show, hide and limit a type.      *)
EXTENDS TicketTypes, TLC

CONSTANTS e1, s1, s2, b1, b2

MCSessionOf == "ab" :> s1 @@ "AB" :> s1 @@ "cd" :> s2 @@ "xy" :> NoSession

Session(text, start, end) == [session |-> text, sale_start |-> start, sale_end |-> end]

Request(sessions, visible, start, stop, quantity) ==
  [sessions |-> sessions, visible |-> visible, start_show |-> start, stop_show |-> stop,
   quantity |-> quantity, pick |-> 0, min |-> 1, max |-> 2]

MCTypeRequests ==
  {Request(<<Session("ab", 1, 2)>>, TRUE, Null, Null, 2),
   Request(<<Session("AB", 2, 2), Session("cd", 1, Null)>>, FALSE, 2, Null, 1),
   Request(<<Session("ab", 1, 2), Session("ab", 1, 2)>>, TRUE, Null, Null, 2),
   Request(<<Session("xy", 1, 2)>>, TRUE, Null, Null, 2)}

MCSymmetry == Permutations({b1, b2})

MCOrders == {<<1, 2>>, <<2, 1>>}
=============================================================================
