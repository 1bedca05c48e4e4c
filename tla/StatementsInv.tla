---------------------------- MODULE StatementsInv ----------------------------
(***************************************************************************)
(* The inductive invariant behind the theorems of StatementsProofs: how    *)
(* the two flags of a QueryResult, the owner of its statement and the      *)
(* state of the engine go together.                                        *)
(***************************************************************************)
EXTENDS Statements

(* Which states of the engine a statement can be in, by its owner; a       *)
(* QueryResult has more to fetch just when its statement stands at a row.  *)
StmtInv ==
  \A s \in Stmt :
    /\ place[s] = "unused" => conn[s] = NoConn /\ vdbe[s] = "none"
    /\ place[s] # "unused" => conn[s] \in Conn
    /\ place[s] = "local"  => vdbe[s] \in {"ready", "null"}
    /\ place[s] = "result" => vdbe[s] \in {"null", "run", "refused", "halt"}
    /\ place[s] = "leaked" => vdbe[s] = "ready"
    /\ place[s] = "gone"   => vdbe[s] \in {"none", "null"}
    /\ place[s] = "result" => (hasMore[s] <=> vdbe[s] = "run")
    /\ vdbe[s] = "run"     => isSuccess[s]
    /\ vdbe[s] = "refused" => ~isSuccess[s]
    /\ place[s] \in {"unused", "local", "leaked"} => ~isSuccess[s]

(* A connection holds changes only as a writer, and for nothing but its    *)
(* transaction or a statement that has not halted.                         *)
ConnInv ==
  \A c \in Conn :
    /\ dirty[c] # {} => Writer(c)
    /\ autoCommit[c] /\ Writer(c) => \E s \in Running(c) : Writes(s)
    /\ autoCommit[c] /\ lock[c] # "none" => Running(c) # {}
    /\ opened[c] = "unclosed" => Leaked(c)

(* Whatever is stored or may still be stored was called a success. *)
StoreInv ==
  /\ \A s \in db : isSuccess[s] /\ vdbe[s] \notin {"run", "refused"}
  /\ \A c \in Conn : \A s \in dirty[c] : conn[s] = c /\ Writes(s) /\ isSuccess[s]

(* Where a write is that no other statement has interfered with.           *)
ClaimInv ==
  /\ claim \ (mixed \cup pinned) \subseteq db
  /\ \A c \in Conn :
       /\ inTx[c] \ mixed \subseteq dirty[c]
       /\ autoCommit[c] => inTx[c] = {}
  /\ \A s \in Stmt : vdbe[s] = "run" /\ Writes(s) /\ s \notin mixed
                       => s \in dirty[conn[s]]

IInv == TypeOK /\ StmtInv /\ ConnInv /\ StoreInv /\ ClaimInv
=============================================================================
