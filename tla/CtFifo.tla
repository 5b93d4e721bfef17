------------------------------- MODULE CtFifo -------------------------------
(***************************************************************************)
(* The synchronous FIFO ct_fifo (ciu/rtl/ct_fifo.v), the queue behind every *)
(* channel of the interconnect.  One step is one rising edge of clk.        *)
(*                                                                         *)
(* The state of one FIFO is a record, so that modules that contain several  *)
(* FIFOs step each of them with FifoEdge:                                   *)
(*   create  the slot fifo_create_ptr points at (one-hot in the code)       *)
(*   pop     fifo_pop_ptr, the slot that is read                            *)
(*   vld     the slots whose fifo_entry_vld bit is set                      *)
(*   cont    fifo_entry_cont                                                *)
(*                                                                         *)
(* The data path has an enable of its own, create_dp: a slot may be written *)
(* in a cycle in which no entry is created.                                 *)
(***************************************************************************)
EXTENDS Integers

CONSTANTS
  DEPTH,      \* the parameter DEPTH
  Data        \* the values of fifo_create_data (WIDTH bits in the code)

ASSUME DepthAssumption == DEPTH \in Nat \ {0}
ASSUME DataAssumption == Data # {}

VARIABLE fifo

Slot == 0 .. DEPTH - 1

(* Mutant: the pointer shifts out of the DEPTH bits. *)
SuccNoWrap(s) == s + 1

Succ(s) == IF s = DEPTH - 1 THEN 0 ELSE s + 1

-----------------------------------------------------------------------------
(* fifo_full, fifo_empty and fifo_pop_data *)
Full(f)    == f.vld = Slot
Empty(f)   == f.vld = {}
PopData(f) == f.cont[f.pop]

(* Mutant: a pop clears the valid bit of the slot that is created. *)
NextVldPopCreate(f, create, pop) ==
  (f.vld \cup (IF create THEN {f.create} ELSE {})) \ (IF pop THEN {f.create} ELSE {})

(* fifo_entry_create has priority over fifo_entry_pop on the same slot. *)
NextVld(f, create, pop) ==
  (f.vld \ (IF pop THEN {f.pop} ELSE {})) \cup (IF create THEN {f.create} ELSE {})

(* Mutant: the data is written where the next entry will be created. *)
FifoEdgeLateWrite(f, create, dp, pop, d) ==
  [create |-> IF create THEN Succ(f.create) ELSE f.create,
   pop    |-> IF pop THEN Succ(f.pop) ELSE f.pop,
   vld    |-> NextVld(f, create, pop),
   cont   |-> IF dp THEN [f.cont EXCEPT ![Succ(f.create)] = d] ELSE f.cont]

(* One clock edge of all registers. *)
FifoEdge(f, create, dp, pop, d) ==
  [create |-> IF create THEN Succ(f.create) ELSE f.create,
   pop    |-> IF pop THEN Succ(f.pop) ELSE f.pop,
   vld    |-> NextVld(f, create, pop),
   cont   |-> IF dp THEN [f.cont EXCEPT ![f.create] = d] ELSE f.cont]

(* Mutant: the enable looks only at what is created. *)
CtrlClkEnCreate(f, dp) == dp

(* ctrl_clk_en: when it is low, a clock gate may hide the edge from the     *)
(* pointers and the valid bits; entry_clk[i] is gated by the write itself.  *)
CtrlClkEn(f, dp) == dp \/ ~Empty(f)

(* The same edge behind clock gates that really stop the clock. *)
GatedEdge(f, create, dp, pop, d) ==
  IF CtrlClkEn(f, dp) THEN FifoEdge(f, create, dp, pop, d)
  ELSE [f EXCEPT !.cont = FifoEdge(f, create, dp, pop, d).cont]

ResetFifo(zero) == [create |-> 0, pop |-> 0, vld |-> {}, cont |-> [s \in Slot |-> zero]]

(* How every instance in the ciu drives its FIFO: an entry that is created  *)
(* is also written, nothing is written into a full queue whose head stays,  *)
(* and only a valid head is popped (pop enables are qualified with          *)
(* fifo_pop_data_vld, create enables with !fifo_full).                      *)
Legal(f, create, dp, pop) ==
  /\ create => dp
  /\ dp => ~Full(f) \/ pop
  /\ pop => ~Empty(f)

FifoInit == \E zero \in Data : fifo = ResetFifo(zero)

FifoClock(create, dp, pop) ==
  /\ Legal(fifo, create, dp, pop)
  /\ \E d \in Data : fifo' = FifoEdge(fifo, create, dp, pop, d)

FifoNext == \E create, dp, pop \in BOOLEAN : FifoClock(create, dp, pop)

FifoSpec == FifoInit /\ [][FifoNext]_fifo

-----------------------------------------------------------------------------
FifoState == [create : Slot, pop : Slot, vld : SUBSET Slot, cont : [Slot -> Data]]

(* The slots from the pop pointer round to the create pointer are valid. *)
IsRing(f) ==
  f.vld = IF f.pop < f.create THEN f.pop .. f.create - 1
          ELSE IF f.create < f.pop THEN (f.pop .. DEPTH - 1) \cup (0 .. f.create - 1)
          ELSE IF Empty(f) THEN {} ELSE Slot

(* Type invariant. *)
FifoTypeOK == fifo \in FifoState

(* The valid bits, the create pointer and the pop pointer always agree,     *)
(* although three always blocks update them: the valid slots are the ones   *)
(* between the pointers, and equal pointers mean empty or full and nothing  *)
(* in between (ct_fifo.v:79-119).                                           *)
RingConsistent == IsRing(fifo)

(* The registers are of their type and form a ring. *)
FifoInv == FifoTypeOK /\ RingConsistent

(* The enables of the clock gates cover every register that changes: a      *)
(* design whose gates stop the clock takes the same steps as this RTL,      *)
(* whose gated_clk_cell passes the clock through (ct_fifo.v:68-77).         *)
GatingTransparent ==
  \A create, dp, pop \in BOOLEAN, d \in Data :
    Legal(fifo, create, dp, pop)
      => GatedEdge(fifo, create, dp, pop, d) = FifoEdge(fifo, create, dp, pop, d)

-----------------------------------------------------------------------------
(* The queue that the ring holds, oldest entry first. *)
Count(f) == IF Empty(f) THEN 0
            ELSE IF f.pop < f.create THEN f.create - f.pop
            ELSE f.create - f.pop + DEPTH

SlotAt(f, k) == IF f.pop + k - 1 < DEPTH THEN f.pop + k - 1 ELSE f.pop + k - 1 - DEPTH

Contents(f) == [k \in 1 .. Count(f) |-> f.cont[SlotAt(f, k)]]

Queue == INSTANCE BoundedQueue WITH Item <- Data, Capacity <- DEPTH, queue <- Contents(fifo)

(* The registers implement a bounded queue: order, contents and length are  *)
(* those of the queue, whatever speculative writes happen at the free slot. *)
ImplementsQueue == Queue!QSpec
=============================================================================
