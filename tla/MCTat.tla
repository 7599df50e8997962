-------------------------------- MODULE MCTat --------------------------------
(* Scripts of two or three operations; a chunk is two characters.            *)
EXTENDS TatConnection

CONSTANTS agent, root, app

MCFiles == {[name |-> "one", chars |-> 3], [name |-> "two", chars |-> 5],
            [name |-> "nil", chars |-> 0]}
FileOf(name) == CHOOSE f \in MCFiles : f.name = name

Put(name)        == [kind |-> "put", what |-> "id", file |-> FileOf(name), user |-> agent]
Get              == [kind |-> "fetch", what |-> "id", file |-> FileOf("nil"), user |-> agent]
Do(what, user)   == [kind |-> "exec", what |-> what, file |-> FileOf("nil"), user |-> user]

MCScripts ==
  {<<Put(f), Put(g)>> : f \in {"one", "two"}, g \in {"one", "two", "nil"}}
    \cup {<<Put("one"), Do("id", app), Get>>, <<Put("two"), Get>>, <<Put("two"), Put("one"), Get>>}
    \cup {<<Do("id", u), Do(w, v), Do("id", root)>> :
            u \in {agent, app}, w \in {"id", "ps"}, v \in {app, root}}
=============================================================================
