-------------------------------- MODULE Holder ---------------------------------
(***************************************************************************)
(* What a value holder promises, any and variant alike: each cell is empty *)
(* or holds one value; a call puts a value into a cell, or copies or moves *)
(* the content of one cell to another, and does so in one step at its end. *)
(*                                                                         *)
(* A holder with the strong guarantee keeps what is in the cells of a call *)
(* until then: the old value of the target is not given up before the new  *)
(* one is in its place, and a call that fails has changed nothing. Without *)
(* it the target may be empty while the call is under way, and after a     *)
(* failure the target and what was to be moved may be lost.                *)
(*                                                                         *)
(* Each client makes one call at a time. Cells are emptied by calls of     *)
(* reset, by destructors, and by what the destructor of a value does.      *)
(***************************************************************************)
EXTENDS Naturals

CONSTANTS Clients, Cells, Contents, Empty,
          Strong     \* TRUE: the strong guarantee

VARIABLES content,   \* content[c]: the value in cell c, or Empty
          call,      \* call[p]: the call of client p, or NoCall
          throws     \* the number of calls that have failed

NoCall == [op |-> "none"]
Puts   == [op : {"put"}, to : Cells, what : Contents]
Passes == [op : {"copy", "move"}, to : Cells, from : Cells]

Init == /\ content = [c \in Cells |-> Empty]
        /\ call = [p \in Clients |-> NoCall]
        /\ throws = 0

(* The cells that the calls under way read or are to change                *)
InUse == {call[p].to : p \in {q \in Clients : call[q] # NoCall}}
           \cup {call[p].from : p \in {q \in Clients : call[q].op \in {"copy", "move"}}}

(* A cell that is to be passed to itself is not emptied first.             *)
Begin(p) == /\ call[p] = NoCall
            /\ \E c \in Puts \cup Passes :
                 /\ call' = [call EXCEPT ![p] = c]
                 /\ \/ UNCHANGED content
                    \/ /\ ~Strong
                       /\ c \in Puts \/ c.from # c.to
                       /\ content' = [content EXCEPT ![c.to] = Empty]
            /\ UNCHANGED throws

Put(c) == /\ c \in Puts
          /\ content' = [content EXCEPT ![c.to] = c.what]

Copy(c) == /\ c \in Passes /\ c.op = "copy"
           /\ content' = [content EXCEPT ![c.to] = content[c.from]]

(* A cell moved to itself keeps its value, or loses it.                    *)
Move(c) == /\ c \in Passes /\ c.op = "move"
           /\ \/ /\ c.to # c.from \/ ~Strong
                 /\ content' = [content EXCEPT ![c.to] = content[c.from], ![c.from] = Empty]
              \/ c.to = c.from /\ UNCHANGED content

Succeed(p) == /\ call[p] # NoCall
              /\ Put(call[p]) \/ Copy(call[p]) \/ Move(call[p])
              /\ call' = [call EXCEPT ![p] = NoCall]
              /\ UNCHANGED throws

(* What was to be moved when the call failed may be lost.                  *)
Fail(p) == /\ call[p] # NoCall
           /\ \/ UNCHANGED content
              \/ /\ ~Strong
                 /\ call[p] \in Passes /\ call[p].op = "move"
                 /\ content' = [content EXCEPT ![call[p].from] = Empty]
           /\ call' = [call EXCEPT ![p] = NoCall]
           /\ throws' = throws + 1

Clear == /\ \E c \in Cells : /\ Strong => c \notin InUse
                             /\ content' = [content EXCEPT ![c] = Empty]
         /\ UNCHANGED <<call, throws>>

Next == Clear \/ \E p \in Clients : Begin(p) \/ Succeed(p) \/ Fail(p)

Spec == Init /\ [][Next]_<<content, call, throws>>
===============================================================================
