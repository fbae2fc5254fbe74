---------------------------- MODULE MCFileEngine ----------------------------
(* A small workspace and calls of every kind for FileEngine.                *)
EXTENDS FileEngine
CONSTANTS f, g
MCPaths == {f, g}

R(op, path, from, old, new) ==
  [op |-> op, path |-> path, from |-> from, old |-> old, new |-> new]
One(r) == [dry |-> FALSE, items |-> <<r>>]
Patch(d, items) == [dry |-> d, items |-> items]

Update(p) == R("update", p, p, <<"a">>, <<"b">>)
Hunk(p)   == R("unified", p, p, <<>>, <<"b">>)
Add(p)    == R("add", p, p, <<>>, <<"b">>)
Delete(p) == R("delete", p, p, <<>>, <<>>)

MCCalls ==
  {One(R("write", f, f, <<>>, <<"b">>)), One(R("append", f, f, <<>>, <<"a">>)),
   One(R("replace", f, f, <<"a">>, <<"b">>)), One(R("copy", f, g, <<>>, <<>>)),
   One(R("move", g, f, <<>>, <<>>)), One(R("backup", f, f, <<>>, <<>>)),
   One(R("restore", f, f, <<>>, <<>>)), 
   Patch(FALSE, <<Update(f), Delete(f)>>), 
   Patch(FALSE, <<Hunk(g), Add(f)>>), Patch(TRUE, <<Update(f), Delete(g)>>)}

MCInitial == {[p \in MCPaths |-> IF p = f THEN t ELSE <<"a">>] : t \in {<<"a">>, Absent}}
MCForeign == {<<"b">>, Absent}
MCLines   == {"a", "b", "#"}
=============================================================================
