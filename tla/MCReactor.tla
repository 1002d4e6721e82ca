-------------------------------- MODULE MCReactor --------------------------------
(***************************************************************************)
(* Instances of the native reactor.                                        *)
(***************************************************************************)
EXTENDS NativeReactor

\* Blocking with one of the ways a wait ends or its process goes; watching.
AllMenus ==
    {{"block", "close", "signal"}, {"block", "close", "deadline"}, {"block", "close", "kill"},
     {"block", "watch", "close"}}

Blocking == {{"block", "close"}}
==================================================================================
