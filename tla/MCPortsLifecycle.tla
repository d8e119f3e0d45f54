-------------------------- MODULE MCPortsLifecycle --------------------------
(* The configuration of the repository, and the ways it can be wrong.      *)
EXTENDS PortsLifecycle

Shipped == [file |-> "readable", databases |-> {"postgres"},
            services |-> {"ports", "restgateway"}, portsServices |-> <<"portentries">>]

MCConfigs ==
  {Shipped,
   [Shipped EXCEPT !.file = "missing"], [Shipped EXCEPT !.file = "malformed"],
   [Shipped EXCEPT !.databases = {}], [Shipped EXCEPT !.services = {"restgateway"}],
   [Shipped EXCEPT !.portsServices = <<"portentries", "vessels">>],
   [Shipped EXCEPT !.portsServices = <<"portentries", "portentries">>],
   [Shipped EXCEPT !.portsServices = <<>>]}
=============================================================================
