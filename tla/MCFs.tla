-------------------------------- MODULE MCFs --------------------------------
(* Instances of Fs for TLC. *)
EXTENDS Fs

Call(op, path) == [op |-> op, path |-> path, new |-> <<>>]
LinkCall(old, new) == [op |-> "link", path |-> old, new |-> new]

OneFile == <<<<"a", 3>>>>

\* A directory in a directory with somebody in it, who may be left there when
\* the directory is removed; or a file with two names, or another call.
Nested ==
  <<{Call("mkdir", <<"d">>)}, {Call("mkdir", <<"d", "e">>)},
    {Call("chdir", <<"d", "e">>)},
    {Call("unlink", <<"/", "d", "e">>), LinkCall(<<"/", "a">>, <<"f">>),
     Call("open", <<"/", "a">>), Call("mknod", <<"/", "c">>)}>>

FewCalls ==
  {Call("openw", <<"..">>), Call("creat", <<"/", "a">>), Call("mkdir", <<"b">>),
   Call("unlink", <<"/", "a">>), Call("unlink", <<"/", "d", "e">>),
   Call("unlink", <<"/", "d">>), LinkCall(<<"/", "a">>, <<"f">>)}

\* linkunlink() in usertests.c.
LinkUnlink ==
  {Call("creat", <<"x">>), Call("unlink", <<"x">>), LinkCall(<<"cat">>, <<"x">>)}
Cat == <<<<"cat", 1>>>>
NoScript == <<>>

Sym == Permutations(Procs)
=============================================================================
