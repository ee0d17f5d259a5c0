----------------------------- MODULE MCCellDelivery -----------------------------
(* Instances of CellDelivery for TLC: rows that are blank or written.      *)
EXTENDS CellDelivery

MCValues == {"blank", "text"}

================================================================================
