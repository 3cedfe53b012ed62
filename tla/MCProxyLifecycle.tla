-------------------------- MODULE MCProxyLifecycle --------------------------
(* Bounds for ProxyLifecycle. *)
EXTENDS ProxyLifecycle
===========================================================================
