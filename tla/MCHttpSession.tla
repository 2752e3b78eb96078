-------------------------- MODULE MCHttpSession --------------------------
EXTENDS HttpSession

Put == [method |-> <<"P", "U", "T">>, path |-> <<"/", "a">>, query |-> <<"q">>,
        version |-> HTTP11, headers |-> ContentLength :> <<"2">>, body |-> <<"x", "y">>]
Get == [method |-> <<"G", "E", "T">>, path |-> <<"/">>, query |-> <<>>,
        version |-> HTTP10, headers |-> Connection :> KeepAlive, body |-> <<>>]

MCMethods == {Put.method, Get.method}
MCRequests == {Put, Get}
MCEol == <<"LF">>
MCOutcomes ==
  {[status |-> 200, headers |-> Connection :> <<"x">>, body |-> <<"a", "b">>],
   [status |-> 404, headers |-> <<"e">> :> <<"1">>, body |-> <<>>]}
MCStatusText == 200 :> <<"O", "K">> @@ 404 :> <<"N", "o">>
============================================================================
