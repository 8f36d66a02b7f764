---------------------------- MODULE MCEnvFilter -----------------------------
(* Instances of EnvFilter. *)
EXTENDS EnvFilterInv

Lang == Name(<<"LANG">>)
Home == Name(<<"HOME">>)
TargetVar == Name(<<"CARGO", "TARGET", "DIR">>)
Editor == Name(<<"EDITOR">>)
Wrapper == Name(<<"RUSTC", "WRAPPER">>)
Token == Name(<<"GH", "TOKEN">>)
LowerToken == Lower(<<"npm", "TOKEN">>)
Agent == Name(<<"SSH", "AGENT", "PID">>)

CallersNames == {Lang, TargetVar, Wrapper, Token, LowerToken}
Some == {{Agent, CargoHome, Pwd}, {Token, Home, CargoHome, Editor, Pwd}, {Lang, LowerToken, TargetVar}}
AllHosts == SUBSET CallersNames \cup Some
Both == {Token, LowerToken, Agent}

Asked == {Lang, Home, CargoHome, Editor, Token, LowerToken}
Settings ==
  {<< >>} \cup {<<Var(n, "first")>> : n \in Asked}
    \cup {<<Var(n, "first"), Var(m, "second")>> : n \in Asked, m \in Asked}
FewRemoved == {{}, {Home}, {CargoHome}, {Editor, Token}, {Lang, Pwd}}
AllRequests ==
  [inherit : BOOLEAN, set : Settings, remove : FewRemoved, policy : {{}, {Home}, {LowerToken}}]
Changing == {Token, Lang}
=============================================================================
