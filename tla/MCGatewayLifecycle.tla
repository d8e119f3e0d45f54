------------------------- MODULE MCGatewayLifecycle -------------------------
(* The configuration of the repository, and the ways it can be wrong.      *)
EXTENDS GatewayLifecycle

Shipped == [file |-> "readable", databases |-> {"postgres"},
            services |-> {"ports", "restgateway"}, portsServices |-> <<"portentries">>]

MCConfigs ==
  {Shipped, [Shipped EXCEPT !.file = "malformed"],
   [Shipped EXCEPT !.services = {"restgateway"}], [Shipped EXCEPT !.services = {"ports"}]}
=============================================================================
