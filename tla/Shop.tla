--------------------------------- MODULE Shop ---------------------------------
(***************************************************************************)
(* What a ticket office and its buyers promise together, without           *)
(* processes, locks or shared memory: tickets are sold one whole purchase  *)
(* at a time, a report has the numbers of one moment, and the shop closes  *)
(* when everything is sold and the last report says so.                    *)
(***************************************************************************)
EXTENDS Integers, Sequences

CONSTANTS
    STOCK,          \* tickets there are to sell
    MOST,           \* the largest purchase
    LAST_REPORT     \* whether the shop reports between selling out and closing

VARIABLES
    stock,
    sales,          \* the sizes of the purchases, in order
    printed,        \* the last report
    closed

shopVars == <<stock, sales, printed, closed>>

ShopInit ==
    /\ stock = STOCK
    /\ sales = <<>>
    /\ printed = [tickets |-> 0, transactions |-> 0]
    /\ closed = FALSE

Sell ==
    /\ ~closed
    /\ \E n \in 1 .. MOST :
          /\ n <= stock
          /\ stock' = stock - n
          /\ sales' = Append(sales, n)
    /\ UNCHANGED <<printed, closed>>

PrintReport ==
    /\ ~closed
    /\ printed' = [tickets |-> stock, transactions |-> Len(sales)]
    /\ UNCHANGED <<stock, sales, closed>>

Close ==
    /\ ~closed
    /\ stock = 0
    /\ LAST_REPORT => printed = [tickets |-> 0, transactions |-> Len(sales)]
    /\ closed' = TRUE
    /\ UNCHANGED <<stock, sales, printed>>

ShopNext == Sell \/ PrintReport \/ Close

ShopSpec == ShopInit /\ [][ShopNext]_shopVars
=============================================================================
