----------------------------- MODULE MCAuditLog -----------------------------
\* Three generations of two records each, and room for twice as many.
EXTENDS AuditLog
=============================================================================
