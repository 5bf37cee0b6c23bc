--------------------------- MODULE MCBatchKernels ---------------------------
(***************************************************************************)
(* BatchKernels with a batch of two messages and one of one.  The slots    *)
(* have a message of every type, both sides of each, a replace and a trade *)
(* without a side, a trade of no shares, a locate code beyond the table,   *)
(* and prices and quantities whose products and sums wrap.                 *)
(***************************************************************************)
EXTENDS BatchKernels

Slot(type, locate, side, tag, qty, price) ==
    [type |-> type, locate |-> locate, side |-> side, tag |-> tag,
     qty |-> qty, price |-> price]

MCSlots ==
    {Slot("A", 0, "B", "0", 1, 1), Slot("A", 0, "S", "0", 1, 2), Slot("F", 0, "B", "0", 1, 2),
     Slot("U", 0, "0", "S", 1, 1), Slot("U", 0, "0", "0", 1, 1),
     Slot("X", 0, "0", "0", 2, 0), Slot("D", 0, "0", "0", 0, 0),
     Slot("P", 0, "B", "0", 2, 2), Slot("P", 0, "S", "0", 2, 1), Slot("P", 0, "B", "0", 0, 1),
     Slot("P", 0, "0", "0", 1, 2), Slot("Q", 0, "0", "0", 4, 2), Slot("P", 1, "B", "0", 1, 1),
     Slot("A", 2, "B", "0", 1, 1)}

MCBatchLen == <<2, 1>>
=============================================================================
