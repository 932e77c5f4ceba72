--------------------------- MODULE ProblemDetails ---------------------------
(***************************************************************************)
(* The error filter of the API: the HTTP status each error is answered     *)
(* with, by the kind of error.                                             *)
(***************************************************************************)
EXTENDS TLC

SettlementProblems ==
    [InvalidSettlementRequestError |-> 400, SettlementCutoffNotClosedError |-> 409,
     SettlementFeeExceedsGrossError |-> 409, SettlementFeePolicyInvalidError |-> 503,
     SettlementBatchNotFoundError |-> 404, SettlementInvariantViolationError |-> 422]

ReconciliationProblems ==
    [LIMIT_FILE_SIZE |-> 413, InvalidReconciliationRequestError |-> 400,
     ReconciliationFileTooLargeError |-> 413, ReconciliationRowLimitExceededError |-> 413,
     ReconciliationCsvInvalidError |-> 400, ReconciliationChecksumConflictError |-> 409,
     ReconciliationImportNotFoundError |-> 404, ReconciliationReportNotReadyError |-> 409,
     ReconciliationImportFailedError |-> 409]

RequestProblems ==
    [InvalidWebhookEndpointRequestError |-> 400, InvalidPaymentIntentRequestError |-> 400,
     UnauthorizedException |-> 401, ForbiddenException |-> 403,
     PaymentIntentNotFoundError |-> 404, WebhookEndpointNotFoundError |-> 404]

PaymentProblems ==
    [UnsupportedPaymentCurrencyError |-> 422, UnsupportedCaptureMethodError |-> 422,
     IdempotencyKeyReusedError |-> 409, IdempotencyRequestInProgressError |-> 409,
     IdempotencyOwnershipLostError |-> 409, IdempotencyKeyExpiredError |-> 409,
     ExternalReferenceConflictError |-> 409, PaymentCurrencyMismatchError |-> 422,
     CaptureAmountMismatchError |-> 409, PaymentIntentNotCapturableError |-> 409,
     PaymentIntentNotRefundableError |-> 409, RefundAmountExceedsAvailableError |-> 409,
     RefundExternalReferenceConflictError |-> 409, PaymentProviderDeclinedError |-> 422]

WebhookProblems ==
    [WebhookEndpointUrlConflictError |-> 409, WebhookEndpointPreconditionFailedError |-> 412,
     WebhookEndpointPreconditionRequiredError |-> 428, UnsupportedWebhookEventError |-> 422,
     WebhookEndpointUrlProhibitedError |-> 422, WebhookEndpointUrlUnresolvableError |-> 422,
     NotFoundException |-> 404]

UnavailableProblems ==
    {"IdentifierGenerationExhaustedError", "SettlementIdentifierExhaustedError",
     "ReconciliationIdentifierExhaustedError", "PaymentProviderUnavailableError",
     "WebhookEndpointIdentifierCollisionError",
     "WebhookEndpointIdentifierGenerationExhaustedError",
     "WebhookEndpointUrlResolutionUnavailableError", "WebhookKeyringUnavailableError",
     "DatabaseUnavailableError"}

\* Framework exceptions below 500, and anything unforeseen.
OtherProblems == [HttpException |-> 400, Error |-> 500]

DeclaredProblems ==
    SettlementProblems @@ ReconciliationProblems @@ RequestProblems @@ PaymentProblems
    @@ WebhookProblems @@ OtherProblems

descriptor ==
    [error \in UnavailableProblems \cup DOMAIN DeclaredProblems |->
        IF error \in UnavailableProblems THEN 503 ELSE DeclaredProblems[error]]
=============================================================================
