-------------------------- MODULE MCCertification --------------------------
EXTENDS Certification
=============================================================================
