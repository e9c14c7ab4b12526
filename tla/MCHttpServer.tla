---------------------------- MODULE MCHttpServer ----------------------------
\* The constants are in the configurations: two workers over a queue of one,
\* a client that completes its requests and one that may stay silent.
EXTENDS HttpServer
=============================================================================
