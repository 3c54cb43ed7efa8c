------------------------------- MODULE Tuple --------------------------------
(***************************************************************************)
(* class Tuple and the types of its cells.  The columns of a tuple are the *)
(* widths of its cells in bytes: 1, 2 and 4 for uint8_t, uint16_t and      *)
(* uint32_t.  Byte b of cell c of tuple t is <<t, c, b>>, byte 0 the low   *)
(* one.                                                                    *)
(***************************************************************************)
EXTENDS Integers, Sequences, FiniteSetsExt

(* The width of a cell's value: what its serialize stores and what its     *)
(* deserialize reads.                                                      *)
value_width(width) == width

(* Type::size is declared to return bool, so that the sizeof(T) each type  *)
(* returns becomes true, which counts as 1 where it is added up.           *)
cell_size(width) == width # 0

(* How far the cursor of Tuple::serialize is when it comes to cell c, and  *)
(* one past the last cell: the size of the tuple.                          *)
NoAdvance(cols, c) == 0
CellOffset(cols, c) == Cardinality({i \in 1 .. (c - 1) : cell_size(cols[i])})
tuple_size(cols) == CellOffset(cols, Len(cols) + 1)

(* The bytes behind dest that serialize touches.                           *)
CellBytes(cols, c) == CellOffset(cols, c) .. (CellOffset(cols, c) + value_width(cols[c]) - 1)
Extent(cols) == UNION {CellBytes(cols, c) : c \in DOMAIN cols}

(* Tuple::serialize of tuple t at dest: the cells in order, a later one    *)
(* over an earlier one.                                                    *)
tuple_serialize(bytes, dest, cols, t) ==
  LET Last(b) == Max({c \in DOMAIN cols : b - dest \in CellBytes(cols, c)})
  IN [b \in DOMAIN bytes |->
        IF b - dest \in Extent(cols)
        THEN <<t, Last(b), b - dest - CellOffset(cols, Last(b))>>
        ELSE bytes[b]]
=============================================================================
