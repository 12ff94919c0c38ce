------------------------------ MODULE TextTools ------------------------------
(***************************************************************************)
(* The programs that take one input and print one result: treetraverse,    *)
(* cppbeast and sipparserapp, each run once on an input.                   *)
(***************************************************************************)
EXTENDS SipMessage

Cpp == INSTANCE CppBeast
Tree == INSTANCE TreeTraverse

CONSTANTS
    Trees,      \* binary trees
    Files,      \* C++ files, in pieces
    Messages    \* SIP messages that are encoded by one side

VARIABLES
    task,      \* the program and its input
    result     \* what it came to: none yet is <<>>

toolVars == <<task, result>>

TreeTasks == {[program |-> "treetraverse", input |-> t] : t \in Trees}
FileTasks == {[program |-> "cppbeast", input |-> f] : f \in Files}
MessageTasks == {[program |-> "sipparserapp", input |-> m] : m \in Messages}

ToolInit == task \in TreeTasks \union FileTasks \union MessageTasks /\ result = <<>>

(* treetraverse.main *)
Traverse ==
    /\ task.program = "treetraverse"
    /\ result' = <<Tree!Solution(task.input)>>

(* cppbeast.process_file *)
ProcessFile ==
    /\ task.program = "cppbeast"
    /\ result' = <<Cpp!ProcessContent(Cpp!Render(task.input))>>

(* sipparserapp.main, on what SipMessage.encode made. *)
ParseMessage ==
    /\ task.program = "sipparserapp"
    /\ result' = <<Decode(Encode(task.input))>>

ToolNext == result = <<>> /\ (Traverse \/ ProcessFile \/ ParseMessage) /\ UNCHANGED task
ToolSpec == ToolInit /\ [][ToolNext]_toolVars

-----------------------------------------------------------------------------
Ran(program) == result # <<>> /\ task.program = program

(* treetraverse.py finds the longest way and the most forks on a way.      *)
TreesAgree == Ran("treetraverse") => Tree!TreeAgrees(task.input, result[1])

(* cppbeast.py changes blanks and line ends of a file, and takes comments  *)
(* and repeated semicolons out.  It keeps every other symbol, in order, of *)
(* a file that ends with an empty line; of others the last one may be      *)
(* lost.  Compound operators stay whole but for "-=" and "^=", and lines   *)
(* are indented by the braces around them.  It fails only on what it does  *)
(* not see closed.                                                         *)
FilesKept == Ran("cppbeast") => Cpp!FormatKeepsText(task.input, result[1])

(* xsip decodes what xsip encoded, except colons and responses.            *)
MessagesReturn == Ran("sipparserapp") => SipRoundTrip(task.input, result[1])
=============================================================================
