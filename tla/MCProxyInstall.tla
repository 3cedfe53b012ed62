---------------------------- MODULE MCProxyInstall ----------------------------
EXTENDS ProxyInstall
=============================================================================
