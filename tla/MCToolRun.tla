----------------------------- MODULE MCToolRun -----------------------------
(***************************************************************************)
(* Instances of ToolRun: a workspace of two files a mutation may reach and *)
(* one it may not, the tools of registry-v2 that matter to it, two phases, *)
(* and patches whose operations depend on each other.                      *)
(***************************************************************************)
EXTENDS ToolRun

Param(name, target) ==
    [name |-> name, type |-> "string", required |-> TRUE, target |-> target]
ToolDef(params, mutating) ==
    [params |-> params, target |-> "workspace-path", trust |-> Untrusted,
     mutating |-> mutating, verifier_eligible |-> FALSE, control |-> FALSE]

MCRegistry ==
    [read_file   |-> ToolDef(<<Param("path", TRUE)>>, FALSE),
     write_file  |-> ToolDef(<<Param("path", TRUE), Param("content", FALSE)>>, TRUE),
     apply_patch |-> [ToolDef(<<Param("patch", FALSE)>>, TRUE) EXCEPT !.target = "none"]]

MCWorkspaces ==
    {[f \in Files |-> IF f = "b" THEN b ELSE "old"] : b \in {Absent, "other"}}

Entry(max, mutating) ==
    [max |-> max, mutating |-> mutating, workspace |-> "absolute",
     themis |-> {}, templates |-> {}]

MCGrant ==
    [version |-> 1, task |-> "task", total |-> 2,
     entries |-> [read_file   |-> Entry(1, FALSE),
                  write_file  |-> Entry(1, TRUE),
                  apply_patch |-> Entry(2, TRUE)]]

MCPhases == {{"read_file", "apply_patch"}, {"write_file", "apply_patch"}}

Write(p)     == [op |-> "write", path |-> p, content |-> "new"]
Delete(p)    == [op |-> "delete", path |-> p]
Rename(f, t) == [op |-> "rename", from |-> f, to |-> t]

Call(tool, args, ops) ==
    [tool |-> tool, object |-> TRUE, target |-> "a", evidence |-> "none",
     args |-> [a \in args |-> "string"], ops |-> ops]
Patch(ops) == Call("apply_patch", {"patch"}, ops)

MCCalls ==
    {Patch(<<Rename("a", "b"), Write("a")>>),
     Patch(<<Write("a"), Rename("a", "b"), Delete("b")>>),
     Patch(<<Delete("a"), Rename("a", "b")>>),
     Patch(<<Write("a"), Delete("git")>>),
     Call("write_file", {"path", "content"}, <<Write("a")>>),
     Call("read_file", {"path"}, << >>),
     Call("read_file", {"path", "content"}, << >>)}

MCPrefixed == {}

=============================================================================
