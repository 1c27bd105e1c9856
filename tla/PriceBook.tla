------------------------------ MODULE PriceBook ------------------------------
(***************************************************************************)
(* What core's replica of the odds feed promises: for each event it holds  *)
(* nothing, one line the feed has posted, or the fact that the event is    *)
(* concluded.  A line is only ever replaced by a later one, an event is    *)
(* closed only once it is concluded, and a closed event stays closed; all  *)
(* of this until the replica forgets everything in a restart.              *)
(***************************************************************************)
EXTENDS Naturals

CONSTANTS Events, NoEntry, Closed

VARIABLES
    posted,     \* posted[e]: lines the feed has posted, each with a time
    concluded,  \* events with an outcome
    book        \* book[e]: NoEntry, a line, or Closed

bookVars == <<posted, concluded, book>>

Init ==
    /\ posted = [e \in Events |-> {}]
    /\ concluded = {}
    /\ book = [e \in Events |-> NoEntry]

Post ==
    /\ \E e \in Events :
           /\ \A f \in Events \ {e} : posted'[f] = posted[f]
           /\ \E line \in posted'[e] :
                  /\ posted'[e] = posted[e] \union {line}
                  /\ \A old \in posted[e] : old.at < line.at
    /\ UNCHANGED <<concluded, book>>

Conclude ==
    /\ \E e \in Events : concluded' = concluded \union {e}
    /\ UNCHANGED <<posted, book>>

Advances(e) ==
    /\ book[e] # Closed
    /\ book'[e] \in posted[e]
    /\ book[e] # NoEntry => book[e].at < book'[e].at

Closes(e) == e \in concluded /\ book'[e] = Closed

Learn ==
    /\ \A e \in Events : book'[e] = book[e] \/ Advances(e) \/ Closes(e)
    /\ UNCHANGED <<posted, concluded>>

Forget ==
    /\ book' = [e \in Events |-> NoEntry]
    /\ UNCHANGED <<posted, concluded>>

Next == Post \/ Conclude \/ Learn \/ Forget

Spec == Init /\ [][Next]_bookVars
=============================================================================
