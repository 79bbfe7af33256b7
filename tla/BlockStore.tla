----------------------------- MODULE BlockStore -----------------------------
(***************************************************************************)
(* What ReadAt and WriteAt of a block device promise (src/driver/traits.rs *)
(* as virtio_blk.rs implements them): a call works through its bytes       *)
(* sector by sector; the bytes of one sector are read or written at once,  *)
(* no other byte changes, and Ok is returned only when all are done.       *)
(***************************************************************************)
EXTENDS Integers, Sequences

CONSTANTS Flows, NoCall, SECTOR_SIZE,
          Calls   \* [op, off, len, val]: a write puts val in every byte

VARIABLES
  bytes,   \* the contents of the device
  call,    \* the call that each flow is in
  done,    \* how many bytes of it are done
  out,     \* the bytes that a read has got so far
  result   \* what the last call to return returned

vars == <<bytes, call, done, out, result>>

\* The bytes that the next step of f's call works on: up to the end of the
\* sector or of the call.
Pos(f) == call[f].off + done[f]
Room(f) == SECTOR_SIZE - (Pos(f) % SECTOR_SIZE)
Rest(f) == call[f].len - done[f]
Count(f) == IF Room(f) < Rest(f) THEN Room(f) ELSE Rest(f)

Start(f, c) ==
  /\ call[f] = NoCall
  /\ call' = [call EXCEPT ![f] = c]
  /\ done' = [done EXCEPT ![f] = 0]
  /\ out' = [out EXCEPT ![f] = <<>>]
  /\ UNCHANGED <<bytes, result>>

Step(f) ==
  /\ call[f] # NoCall /\ Rest(f) > 0
  /\ \/ /\ call[f].op = "read"
        /\ out' = [out EXCEPT ![f] = @ \o [i \in 1 .. Count(f) |-> bytes[Pos(f) + i - 1]]]
        /\ UNCHANGED bytes
     \/ /\ call[f].op = "write"
        /\ bytes' = [i \in DOMAIN bytes |->
                       IF i \in Pos(f) .. (Pos(f) + Count(f) - 1) THEN call[f].val ELSE bytes[i]]
        /\ UNCHANGED out
  /\ done' = [done EXCEPT ![f] = @ + Count(f)]
  /\ UNCHANGED <<call, result>>

End(f, r) ==
  /\ call[f] # NoCall
  /\ r = "Ok" => Rest(f) = 0
  /\ result' = r
  /\ call' = [call EXCEPT ![f] = NoCall]
  /\ done' = [done EXCEPT ![f] = 0]
  /\ out' = [out EXCEPT ![f] = <<>>]
  /\ UNCHANGED bytes

Init ==
  /\ \E v \in {c.val : c \in Calls} : \A i \in DOMAIN bytes : bytes[i] = v
  /\ call = [f \in Flows |-> NoCall]
  /\ done = [f \in Flows |-> 0]
  /\ out = [f \in Flows |-> <<>>]
  /\ result = "none"

Next ==
  \E f \in Flows :
    \/ \E c \in Calls : Start(f, c)
    \/ Step(f)
    \/ \E r \in {"Ok", "Err"} : End(f, r)

Spec == Init /\ [][Next]_vars
=============================================================================
