------------------------------- MODULE MCEdits -------------------------------
(***************************************************************************)
(* What people decide and the trail of it: RuleConfig, Assistant,          *)
(* FolderImport, Customizations and AuditChain on small sets.  They share  *)
(* no state; in this instance one of them moves while the others rest in   *)
(* an initial state, so TLC explores each of them completely.              *)
(***************************************************************************)
EXTENDS RuleConfig, Assistant, FolderImport, Customizations, AuditChain, TLC

\* FolderImport: the folder of one client, and that of one whose name has a document number.
CONSTANTS n1, n2, cpf2
TwoFolders == <<[name |-> n1, cpf |-> NoCpf, files |-> <<"a", "b">>], [name |-> n2, cpf |-> cpf2, files |-> <<"a">>]>>

VARIABLE moves  \* the component that moves in this behaviour

EditsInit ==
    /\ moves \in {"config", "assistant", "import", "request", "audit"}
    /\ Init /\ (moves = "config" \/ rule.config = CHOOSE c \in Configs : TRUE)
    /\ AsInit /\ (moves = "assistant" \/ mcpOn)
    /\ ImportInit /\ CustInit /\ AuditInit

EditsNext ==
    /\ UNCHANGED moves
    /\ \/ moves = "config" /\ Next /\ UNCHANGED <<asVars, importVars, custVars, auditVars>>
       \/ moves = "assistant" /\ AsNext /\ UNCHANGED <<vars, importVars, custVars, auditVars>>
       \/ moves = "import" /\ ImportNext /\ UNCHANGED <<vars, asVars, custVars, auditVars>>
       \/ moves = "request" /\ CustNext /\ UNCHANGED <<vars, asVars, importVars, auditVars>>
       \/ moves = "audit" /\ AuditNext /\ UNCHANGED <<vars, asVars, importVars, custVars>>

EditsSpec == EditsInit /\ [][EditsNext]_<<moves, vars, asVars, importVars, custVars, auditVars>>

\* Every variable of the five modules keeps to its range.
TypesOK == TypeOK /\ AsTypeOK /\ ImportTypeOK /\ CustTypeOK /\ AuditTypeOK

\* The requests and workers of two components are the same model values: only one component moves.
EditsSymmetry == Permutations(Requests) \cup Permutations(Helpers) \cup Permutations(Tokens)
=============================================================================
