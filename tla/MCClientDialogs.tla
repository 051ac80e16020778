-------------------------- MODULE MCClientDialogs --------------------------
(* Values for checking ClientDialogs. *)
EXTENDS ClientDialogs, TLC

Local == [ip |-> "local", port |-> "48888"]
Far == [ip |-> "far", port |-> "48888"]
Odd == [ip |-> "far", port |-> "bad"]
Zero == [ip |-> "far", port |-> "0"]

AllEndpoints == {Local, Far, Odd}
TextOf == Local :> "local:48888" @@ Far :> "far:48888" @@ Odd :> "far:bad"
          @@ Zero :> "far:0"
LocalText == "local:48888"
NobodyTold == {}
FarOnly == {"far:48888"}

PlainName == <<"a">>
OddNames == {<<"%1">>, <<"a", "b">>}
PlainNote == <<"n">>
OneNote == {PlainNote}
TwoCombos == {"0", "1"}
OneMac == {<<"mac">>}
NoMac == <<"zero">>
WrongMac == <<"wrong">>

OneOrThree ==
  {{"domains"}, {"devices"}, {"service", "servers", "protocols", "capture"}}

=============================================================================
